---- MODULE Spec2Model ----
(***************************************************************************)
(* Email triage: the corpus profiler (data_processor.py), the heuristic    *)
(* scorer (email_analyzer.py) and the user policy (models.py).             *)
(*                                                                         *)
(* A Python str is a sequence of one-character strings, so that lower(),   *)
(* split(), strip(), `in' and the regular expressions are computed and not *)
(* assumed.  A Python float is an IEEE-754 double, kept exactly as an      *)
(* integer number of 2^-56 units in two limbs (see the section on floats). *)
(***************************************************************************)
EXTENDS Integers, Sequences, FiniteSets, TLC

(***************************************************************************)
(* Python str                                                              *)
(***************************************************************************)
UpperChars ==
  <<"A","B","C","D","E","F","G","H","I","J","K","L","M",
    "N","O","P","Q","R","S","T","U","V","W","X","Y","Z">>

LowerChars ==
  <<"a","b","c","d","e","f","g","h","i","j","k","l","m",
    "n","o","p","q","r","s","t","u","v","w","x","y","z">>

DigitChars ==
  <<"0","1","2","3","4","5","6","7","8","9">>

\* the elements of a list as a set
Range(f) == {f[i] : i \in DOMAIN f}

IsUpperChar(c) == c \in Range(UpperChars)

IsLowerChar(c) == c \in Range(LowerChars)

IsDigitChar(c) == c \in Range(DigitChars)

\* \w of the re module, over the ASCII alphabet of the model
IsWordChar(c) == IsUpperChar(c) \/ IsLowerChar(c) \/ IsDigitChar(c) \/ c = "_"

lower_char(c) ==
  IF IsUpperChar(c)
    THEN LowerChars[CHOOSE i \in DOMAIN UpperChars : UpperChars[i] = c]
    ELSE c

\* str.lower()
lower(s) == SubSeq([i \in DOMAIN s |-> lower_char(s[i])], 1, Len(s))

\* s[i:j] with 0-based Python bounds i <= j
Slice(s, i, j) == SubSeq(s, i + 1, j)

\* s.startswith(t, i) with a 0-based offset i
StartsWithAt(s, t, i) ==
  /\ i + Len(t) <= Len(s)
  /\ \A k \in 1..Len(t) : s[i + k] = t[k]

\* `t in s' for two str
Contains(s, t) == \E i \in 0..(Len(s) - Len(t)) : StartsWithAt(s, t, i)

\* s.endswith(t)
EndsWith(s, t) == Len(t) <= Len(s) /\ StartsWithAt(s, t, Len(s) - Len(t))

\* str.isupper(): at least one cased character and no lowercase one
isupper(s) ==
  /\ \E i \in DOMAIN s : IsUpperChar(s[i])
  /\ \A i \in DOMAIN s : ~IsLowerChar(s[i])

\* str.strip()
strip(s) ==
  LET keep == {i \in DOMAIN s : s[i] \notin {" ", "\t", "\n", "\r"}}
  IN  IF keep = {} THEN <<>>
      ELSE LET first == CHOOSE i \in keep : \A j \in keep : i <= j
               last  == CHOOSE i \in keep : \A j \in keep : j <= i
           IN  Slice(s, first - 1, last)

\* s.split(c) for a single character c: the pieces between its occurrences
split(s, c) ==
  LET cuts == {i \in DOMAIN s : s[i] = c}
      n    == Cardinality(cuts)
      \* position of the k-th separator, 0 before the first piece and
      \* Len(s)+1 after the last
      cut(k) == IF k = 0 THEN 0
                ELSE IF k = n + 1 THEN Len(s) + 1
                ELSE CHOOSE i \in cuts : Cardinality({j \in cuts : j < i}) = k - 1
  IN  [k \in 1..(n + 1) |-> Slice(s, cut(k - 1), cut(k) - 1)]

\* sep.join(parts)
RECURSIVE join(_, _)
join(sep, parts) ==
  IF Len(parts) = 0 THEN <<>>
  ELSE IF Len(parts) = 1 THEN parts[1]
  ELSE parts[1] \o sep \o join(sep, Tail(parts))

\* re.findall(r'\b\w+\b', s): the maximal runs of word characters, in order
findall_words(s) ==
  LET starts == {i \in DOMAIN s :
                   IsWordChar(s[i]) /\ (i = 1 \/ ~IsWordChar(s[i - 1]))}
      endOf(i) == CHOOSE j \in i..Len(s) :
                    /\ \A k \in i..j : IsWordChar(s[k])
                    /\ (j = Len(s) \/ ~IsWordChar(s[j + 1]))
      n == Cardinality(starts)
      start(k) == CHOOSE i \in starts : Cardinality({j \in starts : j < i}) = k - 1
  IN  [k \in 1..n |-> Slice(s, start(k) - 1, endOf(start(k)))]

(***************************************************************************)
(* Python float (IEEE-754 binary64, round to nearest, ties to even)        *)
(*                                                                         *)
(* Every literal of the scorer (0.1 ... 0.9) is an integer number of       *)
(* 2^-56 units, and so is every sum, difference, max and min of such       *)
(* numbers of magnitude below 4.  A float x is the record [hi, lo] with    *)
(* x = (hi * 2^28 + lo) * 2^-56 and 0 <= lo < 2^28.                        *)
(***************************************************************************)
Limb == 2^28

Dbl(h, l) == [hi |-> h + (l \div Limb), lo |-> l % Limb]

\* spacing of the doubles around a, in 2^-56 units (53-bit significand)
Ulp(a) ==
  LET m == IF a.hi < 0 THEN Dbl(-a.hi, -a.lo).hi ELSE a.hi
  IN  IF m < 2^25 THEN 1
      ELSE IF m < 2^26 THEN 2
      ELSE IF m < 2^27 THEN 4
      ELSE IF m < 2^28 THEN 8
      ELSE IF m < 2^29 THEN 16
      ELSE 32

\* the double nearest to the exact value a, ties to the even significand
FRound(a) ==
  LET g    == Ulp(a)
      r    == a.lo % g
      down == Dbl(a.hi, a.lo - r)
      up   == Dbl(a.hi, a.lo - r + g)
  IN  IF 2 * r < g THEN down
      ELSE IF 2 * r > g THEN up
      ELSE IF ((a.lo - r) \div g) % 2 = 0 THEN down
      ELSE up

\* a + b
FAdd(a, b) == FRound(Dbl(a.hi + b.hi, a.lo + b.lo))

\* a - b
FSub(a, b) == FAdd(a, Dbl(-b.hi, -b.lo))

\* a >= b
FGe(a, b) == a.hi > b.hi \/ (a.hi = b.hi /\ a.lo >= b.lo)

\* a > b
FGt(a, b) == a.hi > b.hi \/ (a.hi = b.hi /\ a.lo > b.lo)

\* max(a, b) of Python: b only when b > a
FMax(a, b) == IF FGt(b, a) THEN b ELSE a

\* min(a, b) of Python: b only when b < a
FMin(a, b) == IF FGt(a, b) THEN b ELSE a

\* the float literals of the sources
F0_0 == [hi |-> 0, lo |-> 0]

F0_1 == [hi |-> 26843545, lo |-> 161061274]

F0_2 == [hi |-> 53687091, lo |-> 53687092]

F0_3 == [hi |-> 80530636, lo |-> 214748364]

F0_4 == [hi |-> 107374182, lo |-> 107374184]

F0_5 == [hi |-> 134217728, lo |-> 0]

F0_7 == [hi |-> 187904819, lo |-> 53687088]

F0_9 == [hi |-> 241591910, lo |-> 107374184]

F1_0 == [hi |-> 268435456, lo |-> 0]

(***************************************************************************)
(* Values shared by the components                                         *)
(***************************************************************************)
\* Python None and a present value, as a sequence of length 0 or 1
None == <<>>

Some(v) == <<v>>

IsNone(o) == Len(o) = 0

Val(o) == o[1]

\* the empty str and the empty dict
EmptyStr == <<>>

EmptyDict == [k \in {} |-> <<>>]

\* the orders in which iterating a Python set can yield its elements
IterationOrders(S) ==
  {f \in [1..Cardinality(S) -> S] : \A i, j \in DOMAIN f : f[i] = f[j] => i = j}

\* the concatenation of a list of lists
RECURSIVE Flatten(_)
Flatten(xss) == IF Len(xss) = 0 THEN <<>> ELSE Head(xss) \o Flatten(Tail(xss))

\* a function as an explicit table of its values
Tabulate(f) == f @@ <<>>

\* Counter(xs).most_common(n) as the set of its keys: the n keys of highest
\* count, equal counts in order of first occurrence
most_common(xs, n) ==
  LET keys  == Range(xs)
      count == Tabulate([e \in keys |-> Cardinality({i \in DOMAIN xs : xs[i] = e})])
      first == Tabulate([e \in keys |->
                 CHOOSE i \in DOMAIN xs : xs[i] = e /\ \A j \in 1..(i - 1) : xs[j] /= e])
      before(e, f) == \/ count[e] > count[f]
                      \/ count[e] = count[f] /\ first[e] < first[f]
  IN  {e \in keys : Cardinality({f \in keys : before(f, e)}) < n}

(***************************************************************************)
(* models.py: UserPreference                                               *)
(***************************************************************************)
\* the comprehension without its filter: [x.strip() for x in text.split(',')]
comma_list_unfiltered(text) ==
  LET parts == split(text, ",")
  IN  [i \in DOMAIN parts |-> strip(parts[i])]

\* [x.strip() for x in text.split(',') if x.strip()]
comma_list(text) ==
  LET parts == split(text, ",")
      nonblank(x) == strip(x) /= EmptyStr
      kept == SelectSeq(parts, nonblank)
  IN  [i \in DOMAIN kept |-> strip(kept[i])]

get_whitelist(prefs) == comma_list(prefs.whitelist)

get_blacklist(prefs) == comma_list(prefs.blacklist)

(***************************************************************************)
(* email_analyzer.py: the keyword tables                                   *)
(***************************************************************************)
Academic == <<"A","c","a","d","e","m","i","c">>

Administrative == <<"A","d","m","i","n","i","s","t","r","a","t","i","v","e">>

Event == <<"E","v","e","n","t">>

Deadline == <<"D","e","a","d","l","i","n","e">>

Personal == <<"P","e","r","s","o","n","a","l">>

Other == <<"O","t","h","e","r">>

edu_domains ==
  << <<".","e","d","u">>,
     <<".","a","c",".","u","k">>,
     <<".","e","d","u",".","a","u">>,
     <<".","a","c",".","n","z">>,
     <<".","e","d","u",".","s","g">> >>

academic_words ==
  << <<"a","s","s","i","g","n","m","e","n","t">>,
     <<"h","o","m","e","w","o","r","k">>,
     <<"c","o","u","r","s","e">>,
     <<"l","e","c","t","u","r","e">>,
     <<"c","l","a","s","s">>,
     <<"p","r","o","f","e","s","s","o","r">>,
     <<"s","y","l","l","a","b","u","s">> >>

administrative_words ==
  << <<"t","u","i","t","i","o","n">>,
     <<"r","e","g","i","s","t","r","a","t","i","o","n">>,
     <<"e","n","r","o","l","l","m","e","n","t">>,
     <<"t","r","a","n","s","c","r","i","p","t">>,
     <<"a","d","m","i","n">>,
     <<"p","o","l","i","c","y">> >>

event_words ==
  << <<"e","v","e","n","t">>,
     <<"s","e","m","i","n","a","r">>,
     <<"w","o","r","k","s","h","o","p">>,
     <<"c","o","n","f","e","r","e","n","c","e">>,
     <<"c","e","r","e","m","o","n","y">>,
     <<"m","e","e","t","i","n","g">> >>

deadline_words ==
  << <<"d","e","a","d","l","i","n","e">>,
     <<"d","u","e"," ","d","a","t","e">>,
     <<"b","y"," ","t","o","m","o","r","r","o","w">>,
     <<"b","y"," ","f","r","i","d","a","y">>,
     <<"s","u","b","m","i","s","s","i","o","n">> >>

personal_words ==
  << <<"h","e","l","l","o">>,
     <<"h","i">>,
     <<"h","e","y">>,
     <<"p","e","r","s","o","n","a","l">>,
     <<"q","u","e","s","t","i","o","n">>,
     <<"r","e","g","a","r","d","i","n","g"," ","y","o","u","r">> >>

suspicious_phrases ==
  << <<"f","r","e","e"," ","m","o","n","e","y">>,
     <<"y","o","u"," ","w","o","n">>,
     <<"l","o","t","t","e","r","y">>,
     <<"m","i","l","l","i","o","n"," ","d","o","l","l","a","r","s">>,
     <<"n","i","g","e","r","i","a","n"," ","p","r","i","n","c","e">>,
     <<"w","i","r","e"," ","t","r","a","n","s","f","e","r">>,
     <<"u","r","g","e","n","t"," ","a","t","t","e","n","t","i","o","n">>,
     <<"c","l","a","i","m"," ","y","o","u","r"," ","p","r","i","z","e">> >>

suspicious_tlds ==
  << <<".","x","y","z">>,
     <<".","i","n","f","o">>,
     <<".","t","k">>,
     <<".","m","l">>,
     <<".","g","a">> >>

urgency_words ==
  << <<"u","r","g","e","n","t">>,
     <<"i","m","p","o","r","t","a","n","t">>,
     <<"d","e","a","d","l","i","n","e">>,
     <<"d","u","e">>,
     <<"r","e","m","i","n","d","e","r">>,
     <<"d","o","n","'","t"," ","f","o","r","g","e","t">>,
     <<"a","c","t","i","o","n"," ","r","e","q","u","i","r","e","d">> >>

portal_phrases ==
  << <<"c","h","e","c","k"," ","t","h","e"," ","u","n","i","v","e","r","s","i","t","y"," ","p","o","r","t","a","l">>,
     <<"p","o","r","t","a","l"," ","f","o","r"," ","m","o","r","e"," ","i","n","f","o","r","m","a","t","i","o","n">>,
     <<"l","o","g","i","n"," ","t","o"," ","t","h","e"," ","p","o","r","t","a","l">> >>


\* any(word in text for word in words)
AnyIn(words, text) == \E i \in DOMAIN words : Contains(text, words[i])

(***************************************************************************)
(* email_analyzer.py: EmailAnalyzer._categorize_email                      *)
(***************************************************************************)
\* the Event rule tried before the Academic one
_categorize_email_event_first(subject, body) ==
  LET combined == lower(subject) \o <<" ">> \o lower(body)
  IN  IF AnyIn(event_words, combined) THEN Event
      ELSE IF AnyIn(academic_words, combined) THEN Academic
      ELSE IF AnyIn(administrative_words, combined) THEN Administrative
      ELSE IF AnyIn(deadline_words, combined) THEN Deadline
      ELSE IF AnyIn(personal_words, combined) THEN Personal
      ELSE Other

_categorize_email(subject, body) ==
  LET subject_lower == lower(subject)
      body_lower    == lower(body)
      combined      == subject_lower \o <<" ">> \o body_lower
  IN  IF AnyIn(academic_words, combined) THEN Academic
      ELSE IF AnyIn(administrative_words, combined) THEN Administrative
      ELSE IF AnyIn(event_words, combined) THEN Event
      ELSE IF AnyIn(deadline_words, combined) THEN Deadline
      ELSE IF AnyIn(personal_words, combined) THEN Personal
      ELSE Other

(***************************************************************************)
(* email_analyzer.py: EmailAnalyzer._check_spam_indicators                 *)
(***************************************************************************)
\* (?:[-\w.]|(?:%[\da-fA-F]{2}))+ from offset k: the offset where the
\* greedy repetition stops
RECURSIVE HostEnd(_, _)
HostEnd(s, k) ==
  LET IsHexChar(c) ==
        IsDigitChar(c) \/ c \in {"a","b","c","d","e","f","A","B","C","D","E","F"}
  IN
  IF k < Len(s) /\ (IsWordChar(s[k + 1]) \/ s[k + 1] \in {"-", "."})
    THEN HostEnd(s, k + 1)
  ELSE IF k + 2 < Len(s) /\ s[k + 1] = "%" /\ IsHexChar(s[k + 2]) /\ IsHexChar(s[k + 3])
    THEN HostEnd(s, k + 3)
  ELSE k

\* https?:// at offset i: the offset after it, or -1
SchemeEnd(s, i) ==
  LET http  == <<"h","t","t","p",":","/","/">>
      https == <<"h","t","t","p","s",":","/","/">>
  IN  IF StartsWithAt(s, https, i) THEN i + Len(https)
      ELSE IF StartsWithAt(s, http, i) THEN i + Len(http)
      ELSE -1

\* whether the expression matches at offset i
UrlAt(s, i) == SchemeEnd(s, i) /= -1 /\ HostEnd(s, SchemeEnd(s, i)) > SchemeEnd(s, i)

\* re.findall(r'https?://(?:[-\w.]|(?:%[\da-fA-F]{2}))+', s), scanning
\* from offset i: the non-overlapping matches from left to right
RECURSIVE findall_urls(_, _)
findall_urls(s, i) ==
  LET starts == {j \in i..(Len(s) - 1) : UrlAt(s, j)}
  IN  IF starts = {} THEN <<>>
      ELSE LET j == CHOOSE j \in starts : \A k \in starts : j <= k
               e == HostEnd(s, SchemeEnd(s, j))
           IN  <<Slice(s, j, e)>> \o findall_urls(s, e)

\* urlparse(url).netloc of a match of that expression: what follows '//'
netloc(url) == Slice(url, SchemeEnd(url, 0), Len(url))

\* score += x, n times
RECURSIVE AddTimes(_, _, _)
AddTimes(score, x, n) == IF n = 0 THEN score ELSE AddTimes(FAdd(score, x), x, n - 1)

_check_spam_indicators(subject, body) ==
  LET s0 == F0_0
      s1 == IF Cardinality({i \in DOMAIN subject : subject[i] = "!"}) > 2 THEN FAdd(s0, F0_1) ELSE s0
      s2 == IF isupper(subject) /\ Len(subject) > 10 THEN FAdd(s1, F0_2) ELSE s1
      combined == lower(subject \o <<" ">> \o body)
      found == {i \in DOMAIN suspicious_phrases : Contains(combined, suspicious_phrases[i])}
      s3 == AddTimes(s2, F0_3, Cardinality(found))
      urls == findall_urls(body, 0)
      bad == {i \in DOMAIN urls :
                \E t \in DOMAIN suspicious_tlds : EndsWith(netloc(urls[i]), suspicious_tlds[t])}
  IN  AddTimes(s3, F0_2, Cardinality(bad))

(***************************************************************************)
(* The emails, policies and corpora the operations are called with         *)
(***************************************************************************)
\* 'dean@university.edu'
DeanSender ==
  <<"d","e","a","n","@","u","n","i","v","e","r","s","i","t","y",".","e","d",
    "u">>

\* 'lottery_winner@gmail.com'
LotterySender ==
  <<"l","o","t","t","e","r","y","_","w","i","n","n","e","r","@","g","m","a",
    "i","l",".","c","o","m">>

Senders ==
  LET \* 'Boss@x@Spam.biz'
      BossSender ==
        <<"B","o","s","s","@","x","@","S","p","a","m",".","b","i","z">>
      \* 'mailer-daemon'
      DaemonSender ==
        <<"m","a","i","l","e","r","-","d","a","e","m","o","n">>
  IN  {DeanSender, LotterySender, BossSender, DaemonSender}

\* 'Important Academic Deadline'
DeanSubject ==
  <<"I","m","p","o","r","t","a","n","t"," ","A","c","a","d","e","m","i","c",
    " ","D","e","a","d","l","i","n","e">>

\* 'YOU WON $5 MILLION!!!'
LotterySubject ==
  <<"Y","O","U"," ","W","O","N"," ","$","5"," ","M","I","L","L","I","O","N",
    "!","!","!">>

Subjects ==
  LET \* 'SEMINAR AFTER LECTURE!!!'
      SeminarSubject ==
        <<"S","E","M","I","N","A","R"," ","A","F","T","E","R"," ","L","E","C","T",
          "U","R","E","!","!","!">>
      \* 'Weekend plans?'
      WeekendSubject ==
        <<"W","e","e","k","e","n","d"," ","p","l","a","n","s","?">>
  IN  {DeanSubject, LotterySubject, SeminarSubject, WeekendSubject}

\* 'Congratulations! You have won our lottery! Click here to claim your prize: http://suspicious-site.xyz'
LotteryBody ==
  <<"C","o","n","g","r","a","t","u","l","a","t","i","o","n","s","!"," ","Y",
    "o","u"," ","h","a","v","e"," ","w","o","n"," ","o","u","r"," ","l","o",
    "t","t","e","r","y","!"," ","C","l","i","c","k"," ","h","e","r","e"," ",
    "t","o"," ","c","l","a","i","m"," ","y","o","u","r"," ","p","r","i","z",
    "e",":"," ","h","t","t","p",":","/","/","s","u","s","p","i","c","i","o",
    "u","s","-","s","i","t","e",".","x","y","z">>

\* 'This is a reminder that all course registrations must be completed by Friday. Please check the university portal for more information.'
DeanBody ==
  <<"T","h","i","s"," ","i","s"," ","a"," ","r","e","m","i","n","d","e","r",
    " ","t","h","a","t"," ","a","l","l"," ","c","o","u","r","s","e"," ","r",
    "e","g","i","s","t","r","a","t","i","o","n","s"," ","m","u","s","t"," ",
    "b","e"," ","c","o","m","p","l","e","t","e","d"," ","b","y"," ","F","r",
    "i","d","a","y","."," ","P","l","e","a","s","e"," ","c","h","e","c","k",
    " ","t","h","e"," ","u","n","i","v","e","r","s","i","t","y"," ","p","o",
    "r","t","a","l"," ","f","o","r"," ","m","o","r","e"," ","i","n","f","o",
    "r","m","a","t","i","o","n",".">>

Bodies ==
  LET \* 'Hey, thanks a lot.'
      ThanksBody ==
        <<"H","e","y",","," ","t","h","a","n","k","s"," ","a"," ","l","o","t",".">>
      \* 'Workshop tickets inside. Wire transfer to http://tickets.info'
      WorkshopBody ==
        <<"W","o","r","k","s","h","o","p"," ","t","i","c","k","e","t","s"," ","i",
          "n","s","i","d","e","."," ","W","i","r","e"," ","t","r","a","n","s","f",
          "e","r"," ","t","o"," ","h","t","t","p",":","/","/","t","i","c","k","e",
          "t","s",".","i","n","f","o">>
      \* 'Your tuition invoice: http://pay.xyz'
      TuitionBody ==
        <<"Y","o","u","r"," ","t","u","i","t","i","o","n"," ","i","n","v","o","i",
          "c","e",":"," ","h","t","t","p",":","/","/","p","a","y",".","x","y","z">>
      \* 'You won free money! course registrations must be completed by Friday. Please check the university portal'
      PortalBaitBody ==
        <<"Y","o","u"," ","w","o","n"," ","f","r","e","e"," ","m","o","n","e","y",
          "!"," ","c","o","u","r","s","e"," ","r","e","g","i","s","t","r","a","t",
          "i","o","n","s"," ","m","u","s","t"," ","b","e"," ","c","o","m","p","l",
          "e","t","e","d"," ","b","y"," ","F","r","i","d","a","y","."," ","P","l",
          "e","a","s","e"," ","c","h","e","c","k"," ","t","h","e"," ","u","n","i",
          "v","e","r","s","i","t","y"," ","p","o","r","t","a","l">>
  IN  {DeanBody, LotteryBody, ThanksBody, WorkshopBody, TuitionBody, PortalBaitBody}

Policies ==
  LET \* UserPreference rows: whitelist and blacklist are the comma-separated texts
      MixedPolicy ==
        [whitelist |-> <<"u","n","i","v","e","r","s","i","t","y",".","e","d","u",","," ","G","M","A","I","L",".","c","o","m">>,
         blacklist |-> <<" ","S","p","a","m",".","b","i","z"," ",",",","," ","l","o","t","t","e","r","y">>,
         priority_threshold |-> F0_5,
         enable_notifications |-> TRUE]
      BlankPolicy ==
        [whitelist |-> <<>>,
         blacklist |-> <<" ",","," ">>,
         priority_threshold |-> F0_0,
         enable_notifications |-> TRUE]
  IN  {None, Some(MixedPolicy), Some(BlankPolicy)}

Corpora ==
  LET \* training corpora: dict of label -> list of email dicts
      UniversityCorpus ==
        [l \in {"ham", "university_notice"} |->
           IF l = "ham"
             THEN << [sender |-> <<"f","r","i","e","n","d","@","g","m","a","i","l",".","c","o","m">>,
            subject |-> <<"D","i","n","n","e","r">>,
            body |-> <<"W","e","e","k","e","n","d"," ","d","i","n","n","e","r"," ","p","l","a","n","s">>,
            date |-> <<"2","0","2","4","-","0","1","-","0","5">>] >>
             ELSE << [sender |-> <<"r","e","g","i","s","t","r","a","r","@","u","n","i","v","e","r","s","i","t","y",".","e","d","u">>,
            subject |-> <<"C","o","u","r","s","e"," ","r","e","g","i","s","t","r","a","t","i","o","n","s">>,
            body |-> <<"C","h","e","c","k"," ","t","h","e"," ","u","n","i","v","e","r","s","i","t","y"," ","p","o","r","t","a","l",".",
                       " ","W","o","r","k","s","h","o","p"," ","t","i","c","k","e","t","s"," ","i","n","s","i","d","e">>,
            date |-> <<"2","0","2","4","-","0","1","-","0","6">>] >>]
      SpamCorpus ==
        [l \in {"spam"} |->
           << [sender |-> <<"p","r","o","m","o","@","S","p","a","m",".","b","i","z">>,
            subject |-> <<"L","o","t","t","e","r","y"," ","p","r","i","z","e">>,
            body |-> <<"C","l","a","i","m"," ","l","o","t","t","e","r","y"," ","p","r","i","z","e">>,
            date |-> <<"2","0","2","4","-","0","1","-","0","7">>],
              [sender |-> <<"m","a","i","l","e","r","-","d","a","e","m","o","n">>,
            subject |-> <<>>,
            body |-> <<"C","l","a","i","m"," ","p","r","i","z","e">>,
            date |-> <<>>] >>]
      PhishCorpus ==
        [l \in {"spam", "other"} |->
           IF l = "spam"
             THEN << [sender |-> <<"p","h","i","s","h","@","U","n","i","v","e","r","s","i","t","y",".","E","D","U">>,
            subject |-> <<"A","c","c","o","u","n","t"," ","a","l","e","r","t">>,
            body |-> <<"Y","o","u"," ","w","o","n">>,
            date |-> <<>>] >>
             ELSE << [sender |-> <<"b","o","t","@","x",".","i","n","f","o">>,
            subject |-> <<"M","i","s","c">>,
            body |-> <<"N","o","t","h","i","n","g">>,
            date |-> <<>>] >>]
      \* twelve spam senders over eleven domains: d1.tk ... d9.tk, d10.tk, d11.tk
      \* and d11.tk once more; the body of the record of domain d<n> is
      \* 'Key<n>a key<n>b key<n>c key<n>d key<n>e', 55 distinct words in all
      BulkCorpus ==
        LET BulkDomains ==
              << <<"1">>, <<"2">>, <<"3">>, <<"4">>, <<"5">>, <<"6">>, <<"7">>, <<"8">>,
                 <<"9">>, <<"1","0">>, <<"1","1">>, <<"1","1">> >>
            BulkSender(d) == <<"u","@","d">> \o d \o <<".","t","k">>
            BulkBody(d) ==
              <<"K","e","y">> \o d \o <<"a"," ","k","e","y">> \o d \o <<"b"," ","k","e","y">>
                \o d \o <<"c"," ","k","e","y">> \o d \o <<"d"," ","k","e","y">> \o d \o <<"e">>
        IN  [l \in {"spam"} |->
               [i \in DOMAIN BulkDomains |->
                  [sender |-> BulkSender(BulkDomains[i]),
                   subject |-> EmptyStr,
                   body |-> BulkBody(BulkDomains[i]),
                   date |-> EmptyStr]]]
  IN  {UniversityCorpus, SpamCorpus, PhishCorpus, BulkCorpus}

(***************************************************************************)
(* The text features of the input emails.  Each table is the source        *)
(* expression named in its comment, evaluated once per input text.         *)
(***************************************************************************)
\* set(re.findall(r'\b\w+\b', (subject + " " + body).lower()))
word_set(subject, body) == Range(findall_words(lower(subject \o <<" ">> \o body)))

\* sender.split('@')[-1].lower()
sender_domain_of(sender) ==
  LET parts == split(sender, "@") IN lower(parts[Len(parts)])

CategoryTable == Tabulate([p \in Subjects \X Bodies |-> _categorize_email(p[1], p[2])])

SpamScoreTable == Tabulate([p \in Subjects \X Bodies |-> _check_spam_indicators(p[1], p[2])])

WordSetTable == Tabulate([p \in Subjects \X Bodies |-> word_set(p[1], p[2])])

DomainTable == Tabulate([s \in Senders |-> sender_domain_of(s)])

\* any(edu_domain in sender_domain for edu_domain in self.edu_domains)
EduTable == Tabulate([s \in Senders |-> AnyIn(edu_domains, DomainTable[s])])

\* any(word in subject.lower() for word in urgency_words)
UrgencyTable == Tabulate([s \in Subjects |-> AnyIn(urgency_words, lower(s))])

\* any(phrase in body.lower() for phrase in portal_phrases)
PortalTable == Tabulate([b \in Bodies |-> AnyIn(portal_phrases, lower(b))])

\* the entries of a policy list that the sender matches, one per loop pass:
\* [x for x in entries if x.lower() in sender.lower()]
matching_entries(entries, sender) ==
  LET hit(x) == Contains(lower(sender), lower(x)) IN SelectSeq(entries, hit)

WhitelistTable ==
  Tabulate([p \in Senders \X {Val(o) : o \in Policies \ {None}} |->
     Len(matching_entries(get_whitelist(p[2]), p[1]))])

BlacklistTable ==
  Tabulate([p \in Senders \X {Val(o) : o \in Policies \ {None}} |->
     Len(matching_entries(get_blacklist(p[2]), p[1]))])

(***************************************************************************)
(* email_analyzer.py: EmailAnalyzer.analyze_email, block by block          *)
(***************************************************************************)
\* an indicator string: the f-string and the value it interpolates
Indicator(text, value) == [fmt |-> text, arg |-> value]

InitialResults ==
  [is_spam |-> FALSE,
   is_important |-> FALSE,
   is_university_notice |-> FALSE,
   category |-> Other,
   priority_score |-> F0_0,
   spam_indicators |-> <<>>,
   importance_indicators |-> <<>>]

\* for trusted in whitelist: ... , one pass per matching entry
RECURSIVE whitelist_loop(_, _, _)
whitelist_loop(results, sender, hits) ==
  IF hits = 0 THEN results
  ELSE whitelist_loop(
         [results EXCEPT
            !.is_important = TRUE,
            !.priority_score = F0_9,
            !.importance_indicators =
               Append(@, Indicator("Sender {sender} is in your whitelist", sender))],
         sender, hits - 1)

\* the blacklist loop lowering the score without flagging the email
blacklist_loop_score_only(results, sender, hits) ==
  IF hits = 0 THEN results
  ELSE [results EXCEPT
          !.priority_score = F0_1,
          !.spam_indicators =
             Append(@, Indicator("Sender {sender} is in your blacklist", sender))]

\* for blocked in blacklist: ... , one pass per matching entry
RECURSIVE blacklist_loop(_, _, _)
blacklist_loop(results, sender, hits) ==
  IF hits = 0 THEN results
  ELSE blacklist_loop(
         [results EXCEPT
            !.is_spam = TRUE,
            !.priority_score = F0_1,
            !.spam_indicators =
               Append(@, Indicator("Sender {sender} is in your blacklist", sender))],
         sender, hits - 1)

\* the two loops in the other order: the blocked senders first
policy_check_blocked_first(results, sender, user_preferences) ==
  IF IsNone(user_preferences) THEN results
  ELSE LET prefs == Val(user_preferences)
           r1 == blacklist_loop(results, sender, BlacklistTable[<<sender, prefs>>])
       IN  whitelist_loop(r1, sender, WhitelistTable[<<sender, prefs>>])

policy_check(results, sender, user_preferences) ==
  IF IsNone(user_preferences) THEN results
  ELSE LET prefs == Val(user_preferences)
           r1 == whitelist_loop(results, sender, WhitelistTable[<<sender, prefs>>])
       IN  blacklist_loop(r1, sender, BlacklistTable[<<sender, prefs>>])

spam_domain_check(results, self, sender) ==
  LET sender_domain == DomainTable[sender]
  IN  IF sender_domain \in self.common_spam_domains
        THEN [results EXCEPT
                !.is_spam = TRUE,
                !.priority_score = FSub(@, F0_4),
                !.spam_indicators =
                   Append(@, Indicator("Sender domain {sender_domain} is known for spam emails",
                                       sender_domain))]
        ELSE results

edu_domain_check(results, sender) ==
  IF EduTable[sender]
    THEN [results EXCEPT
            !.priority_score = FAdd(@, F0_5),
            !.importance_indicators =
               Append(@, Indicator("Sender from educational domain: {sender_domain}",
                                   DomainTable[sender]))]
    ELSE results

categorize(results, subject, body) ==
  [results EXCEPT !.category = CategoryTable[<<subject, body>>]]

important_categories == {Academic, Administrative, Deadline}

university_matches(self, subject, body) ==
  WordSetTable[<<subject, body>>] \cap self.university_keywords

\* the keyword block entered whatever the number of matches
university_keyword_check_always(results, self, subject, body) ==
  [results EXCEPT
     !.is_university_notice = TRUE,
     !.priority_score = FAdd(@, F0_3),
     !.importance_indicators =
        Append(@, Indicator("University notice detected based on content", EmptyStr)),
     !.category = IF @ \notin important_categories THEN Administrative ELSE @]

\* the keyword block marking the notice and leaving the category of step 4
university_keyword_check_keeps_category(results, self, subject, body) ==
  IF self.university_keywords /= {}
       /\ Cardinality(university_matches(self, subject, body)) >= 3
    THEN [results EXCEPT
            !.is_university_notice = TRUE,
            !.priority_score = FAdd(@, F0_3),
            !.importance_indicators =
               Append(@, Indicator("University notice detected based on content", EmptyStr))]
    ELSE results

university_keyword_check(results, self, subject, body) ==
  IF self.university_keywords /= {}
       /\ Cardinality(university_matches(self, subject, body)) >= 3
    THEN [results EXCEPT
            !.is_university_notice = TRUE,
            !.priority_score = FAdd(@, F0_3),
            !.importance_indicators =
               Append(@, Indicator("University notice detected based on content", EmptyStr)),
            !.category = IF @ \notin important_categories THEN Administrative ELSE @]
    ELSE results

category_bonus(results) ==
  IF results.category \in important_categories
    THEN [results EXCEPT
            !.priority_score = FAdd(@, F0_3),
            !.importance_indicators =
               Append(@, Indicator("Important category: {results['category']}",
                                   results.category))]
    ELSE results

spam_matches(self, subject, body) ==
  WordSetTable[<<subject, body>>] \cap self.spam_keywords

\* order: the list(spam_matches) of this call
spam_keyword_check(results, self, subject, body, order) ==
  IF self.spam_keywords /= {}
       /\ Cardinality(spam_matches(self, subject, body)) >= 3
    THEN LET spam_words == join(<<",", " ">>, SubSeq(order, 1, IF Len(order) < 3 THEN Len(order) ELSE 3))
         IN  [results EXCEPT
                !.priority_score = FSub(@, F0_3),
                !.spam_indicators =
                   Append(@, Indicator("Spam-related content detected: '{spam_words}...'",
                                       spam_words))]
    ELSE results

\* the structural gate subtracting without the floor at 0
standard_spam_check_no_floor(results, subject, body) ==
  LET spam_score == SpamScoreTable[<<subject, body>>]
  IN  IF FGt(spam_score, F0_5)
        THEN [results EXCEPT
                !.is_spam = TRUE,
                !.priority_score = FSub(@, spam_score)]
        ELSE results

\* the gate taken at a sub-score of 0.5 as well
standard_spam_check_inclusive(results, subject, body) ==
  LET spam_score == SpamScoreTable[<<subject, body>>]
  IN  IF FGe(spam_score, F0_5)
        THEN [results EXCEPT
                !.is_spam = TRUE,
                !.priority_score = FMax(F0_0, FSub(@, spam_score))]
        ELSE results

standard_spam_check(results, subject, body) ==
  LET spam_score == SpamScoreTable[<<subject, body>>]
  IN  IF FGt(spam_score, F0_5)
        THEN [results EXCEPT
                !.is_spam = TRUE,
                !.priority_score = FMax(F0_0, FSub(@, spam_score))]
        ELSE results

urgency_check(results, subject) ==
  IF UrgencyTable[subject] /\ ~results.is_spam
    THEN [results EXCEPT
            !.priority_score = FAdd(@, F0_1),
            !.importance_indicators =
               Append(@, Indicator("Urgency indicated in subject", EmptyStr))]
    ELSE results

\* the portal block raising the score without setting the notice flag
portal_check_score_only(results, body) ==
  IF PortalTable[body]
    THEN [results EXCEPT
            !.priority_score = FAdd(@, F0_2),
            !.importance_indicators =
               Append(@, Indicator("References university portal", EmptyStr))]
    ELSE results

portal_check(results, body) ==
  IF PortalTable[body]
    THEN [results EXCEPT
            !.is_university_notice = TRUE,
            !.priority_score = FAdd(@, F0_2),
            !.importance_indicators =
               Append(@, Indicator("References university portal", EmptyStr))]
    ELSE results

\* the lock setting the flag and leaving the score where it is
university_lock_flag_only(results) ==
  IF results.is_university_notice /\ ~results.is_spam
    THEN [results EXCEPT !.is_important = TRUE]
    ELSE results

university_lock(results) ==
  IF results.is_university_notice /\ ~results.is_spam
    THEN [results EXCEPT
            !.is_important = TRUE,
            !.priority_score = FMax(@, F0_7)]
    ELSE results

\* threshold = 0.7, or user_preferences.priority_threshold
threshold_of(user_preferences) ==
  IF IsNone(user_preferences) THEN F0_7 ELSE Val(user_preferences).priority_threshold

finalize_importance(results, user_preferences) ==
  [results EXCEPT !.is_important = FGe(results.priority_score, threshold_of(user_preferences))]

\* the cap with its lower bound forgotten
cap_priority_upper_only(results) ==
  [results EXCEPT !.priority_score = FMin(F1_0, @)]

cap_priority(results) ==
  [results EXCEPT !.priority_score = FMax(F0_0, FMin(F1_0, @))]

\* the k-th block of analyze_email applied to results
block(k, results, self, sender, subject, body, user_preferences, order) ==
  CASE k = 1  -> policy_check(results, sender, user_preferences)
    [] k = 2  -> spam_domain_check(results, self, sender)
    [] k = 3  -> edu_domain_check(results, sender)
    [] k = 4  -> categorize(results, subject, body)
    [] k = 5  -> university_keyword_check(results, self, subject, body)
    [] k = 6  -> category_bonus(results)
    [] k = 7  -> spam_keyword_check(results, self, subject, body, order)
    [] k = 8  -> standard_spam_check(results, subject, body)
    [] k = 9  -> urgency_check(results, subject)
    [] k = 10 -> portal_check(results, body)
    [] k = 11 -> university_lock(results)
    [] k = 12 -> finalize_importance(results, user_preferences)
    [] k = 13 -> cap_priority(results)

\* the value of results after each of the first k blocks, in order
RECURSIVE run_blocks(_, _, _, _, _, _, _)
run_blocks(k, self, sender, subject, body, user_preferences, order) ==
  IF k = 0 THEN <<>>
  ELSE LET done == run_blocks(k - 1, self, sender, subject, body, user_preferences, order)
           results == IF k = 1 THEN InitialResults ELSE done[k - 1]
       IN  Append(done, block(k, results, self, sender, subject, body,
                              user_preferences, order))

\* the value of results after each block of analyze_email, in order
analyze_steps(self, sender, subject, body, user_preferences, order) ==
  run_blocks(13, self, sender, subject, body, user_preferences, order)

analyze_email(self, sender, subject, body, user_preferences, order) ==
  LET all == analyze_steps(self, sender, subject, body, user_preferences, order)
  IN  all[Len(all)]

(***************************************************************************)
(* email_analyzer.py: training                                             *)
(***************************************************************************)
\* most_common(50) and most_common(10)
TopKeywords == 50

TopDomains == 10

\* the words of the emails of one label with the length test left out
label_words_any_length(emails) ==
  LET words_of(email) ==
        findall_words(lower(email.subject) \o <<" ">> \o lower(email.body))
  IN  Flatten([i \in DOMAIN emails |-> words_of(emails[i])])

\* the words longer than 3 characters of the emails of one label, in order
label_words(emails) ==
  LET long(word) == Len(word) > 3
      words_of(email) ==
        SelectSeq(findall_words(lower(email.subject) \o <<" ">> \o lower(email.body)), long)
  IN  Flatten([i \in DOMAIN emails |-> words_of(emails[i])])

\* the domains with the '@' test left out: a sender without '@' counts whole
label_domains_whole(emails) ==
  [i \in DOMAIN emails |-> sender_domain_of(emails[i].sender)]

\* the domains of the senders that contain '@', in order
label_domains(emails) ==
  LET domain_of(email) ==
        IF Contains(email.sender, <<"@">>)
          THEN <<sender_domain_of(email.sender)>>
          ELSE <<>>
  IN  Flatten([i \in DOMAIN emails |-> domain_of(emails[i])])

\* `label in self.trained_data and self.trained_data[label]'
HasEmails(data, label) == label \in DOMAIN data /\ Len(data[label]) > 0

_extract_features_from_training_data(self) ==
  IF DOMAIN self.trained_data = {} THEN self
  ELSE LET spam == HasEmails(self.trained_data, "spam")
           univ == HasEmails(self.trained_data, "university_notice")
       IN  [self EXCEPT
              !.spam_keywords =
                 IF spam THEN most_common(label_words(self.trained_data["spam"]), TopKeywords)
                 ELSE @,
              !.common_spam_domains =
                 IF spam THEN most_common(label_domains(self.trained_data["spam"]), TopDomains)
                 ELSE @,
              !.university_keywords =
                 IF univ
                   THEN most_common(label_words(self.trained_data["university_notice"]),
                                    TopKeywords)
                 ELSE @]

\* the test `d is None' in place of `not d'
Falsy_none_only(d) == IsNone(d)

\* `not d' for a dict or None
Falsy(d) == IsNone(d) \/ DOMAIN Val(d) = {}

\* EmailAnalyzer(trained_data)
__init__(trained_data) ==
  LET self == [trained_data |-> IF Falsy(trained_data) THEN EmptyDict ELSE Val(trained_data),
               spam_keywords |-> {},
               university_keywords |-> {},
               common_spam_domains |-> {}]
  IN  IF DOMAIN self.trained_data /= {}
        THEN _extract_features_from_training_data(self)
        ELSE self

\* the merge loop assigning instead of extending: incoming lists replace
\* the existing ones
merge_training_data_replace(existing, incoming) ==
  [label \in DOMAIN existing \cup DOMAIN incoming |->
     IF label \in DOMAIN incoming THEN incoming[label] ELSE existing[label]]

\* the dict after the merge loop of update_training_data
merge_training_data(existing, incoming) ==
  [label \in DOMAIN existing \cup DOMAIN incoming |->
     IF label \in DOMAIN existing /\ label \in DOMAIN incoming
       THEN existing[label] \o incoming[label]
     ELSE IF label \in DOMAIN incoming THEN incoming[label]
     ELSE existing[label]]

\* the caller's dict after EmailAnalyzer(trained_data): `trained_data or {}'
\* keeps the caller's dict itself when it is not empty, so the dict and each
\* of its lists are the objects self.trained_data holds
held_after_init(trained_data) ==
  IF Falsy(trained_data) THEN <<>>
  ELSE <<[passed |-> Val(trained_data), dict |-> Val(trained_data),
          is_self |-> TRUE, shared |-> DOMAIN Val(trained_data)]>>

\* the caller's dicts after update_training_data(new_data) on an analyzer
\* holding `existing': extend() changes the list object of the label, which
\* every dict sharing that list sees; an assignment to a new label adds the
\* key to the dict that is self.trained_data and makes the list of new_data
\* the list self.trained_data holds.  `kept' is whether the caller keeps a
\* reference to new_data after the call
held_after_update(dicts, existing, new_data, kept) ==
  IF Falsy(new_data) THEN dicts
  ELSE IF DOMAIN existing = {}
    THEN [i \in DOMAIN dicts |-> [dicts[i] EXCEPT !.is_self = FALSE]]
           \o (IF kept
                 THEN <<[passed |-> Val(new_data), dict |-> Val(new_data),
                         is_self |-> TRUE, shared |-> DOMAIN Val(new_data)]>>
               ELSE <<>>)
  ELSE LET incoming == Val(new_data)
           added == DOMAIN incoming \ DOMAIN existing
           after(h) ==
             [h EXCEPT
                !.dict = [label \in DOMAIN h.dict \cup (IF h.is_self THEN added ELSE {}) |->
                            IF label \notin DOMAIN h.dict THEN incoming[label]
                            ELSE IF label \in h.shared /\ label \in DOMAIN incoming
                              THEN h.dict[label] \o incoming[label]
                            ELSE h.dict[label]],
                !.shared = IF h.is_self THEN @ \cup added ELSE @]
       IN  [i \in DOMAIN dicts |-> after(dicts[i])]
             \o (IF kept
                   THEN <<[passed |-> incoming, dict |-> incoming,
                           is_self |-> FALSE, shared |-> added]>>
                 ELSE <<>>)

\* the analyzer after the call, and the value returned
update_training_data(self, new_data) ==
  IF Falsy(new_data) THEN [self |-> self, returned |-> FALSE]
  ELSE LET merged == IF DOMAIN self.trained_data = {}
                       THEN Val(new_data)
                       ELSE merge_training_data(self.trained_data, Val(new_data))
       IN  [self |-> _extract_features_from_training_data(
                        [self EXCEPT !.trained_data = merged]),
            returned |-> TRUE]

(***************************************************************************)
(* data_processor.py: DataProcessor                                        *)
(***************************************************************************)
\* a cell of the loaded table: None is the missing value (NaN)
isna(cell) == IsNone(cell)

\* row[col] if not pd.isna(row[col]) else ''
cell_or_empty(cell) == IF isna(cell) THEN EmptyStr ELSE Val(cell)

SPAM_LABEL == <<"s","p","a","m">>

HAM_LABEL == <<"h","a","m">>

UNIVERSITY_LABEL == <<"u","n","i","v","e","r","s","i","t","y"," ","n","o","t","i","c","e">>

UNIVERSITY_KEY == <<"u","n","i","v","e","r","s","i","t","y","_","n","o","t","i","c","e">>

\* the third label matched with an underscore, as the key is spelled
label_key_underscore(label) ==
  IF lower(label) = SPAM_LABEL THEN Some("spam")
  ELSE IF lower(label) = HAM_LABEL THEN Some("ham")
  ELSE IF lower(label) = UNIVERSITY_KEY THEN Some("university_notice")
  ELSE None

\* the key of training_data a row is appended to, or None
label_key(label) ==
  IF lower(label) = SPAM_LABEL THEN Some("spam")
  ELSE IF lower(label) = HAM_LABEL THEN Some("ham")
  ELSE IF lower(label) = UNIVERSITY_LABEL THEN Some("university_notice")
  ELSE None

email_data_of(row) ==
  [sender |-> cell_or_empty(row.email),
   subject |-> cell_or_empty(row.subject),
   body |-> cell_or_empty(row.body),
   date |-> cell_or_empty(row.date)]

\* the loop over the rows: row['label'].lower() raises on a missing label,
\* and the exception leaves get_training_data
RECURSIVE categorize_rows(_, _)
categorize_rows(rows, training_data) ==
  IF Len(rows) = 0 THEN [raised |-> FALSE, value |-> training_data]
  ELSE LET row == Head(rows)
       IN  IF isna(row.label) THEN [raised |-> TRUE, value |-> training_data]
           ELSE LET key == label_key(Val(row.label))
                IN  categorize_rows(
                      Tail(rows),
                      IF IsNone(key) THEN training_data
                      ELSE [training_data EXCEPT ![Val(key)] = Append(@, email_data_of(row))])

\* data: self.data, None before a successful load
get_training_data(data) ==
  IF IsNone(data) THEN [raised |-> FALSE, value |-> EmptyDict]
  ELSE categorize_rows(Val(data),
                       [l \in {"spam", "ham", "university_notice"} |-> <<>>])

\* load_dataset: file is None when the path does not exist; read_csv raises
\* on a file it cannot read or parse, which the handler turns into False,
\* else self.data is the rows it yields
load_dataset(data, file) ==
  IF IsNone(file) THEN [data |-> data, returned |-> FALSE]
  ELSE IF ~Val(file).readable THEN [data |-> data, returned |-> FALSE]
  ELSE [data |-> Some(Val(file).rows), returned |-> TRUE]

(***************************************************************************)
(* The analyzer as a state machine                                         *)
(***************************************************************************)
\* the number of successful update_training_data calls explored
MaxUpdates == 1

VARIABLES
  trained_data,         \* EmailAnalyzer.trained_data
  spam_keywords,        \* EmailAnalyzer.spam_keywords
  university_keywords,  \* EmailAnalyzer.university_keywords
  common_spam_domains,  \* EmailAnalyzer.common_spam_domains
  updates,              \* successful update_training_data calls so far
  held,                 \* the dicts the caller passed as trained_data or new_data
                        \* and still holds: their contents when passed and now
  update_call,          \* the caller's last update_training_data call: its argument,
                        \* the analyzer before it and the value it returned
  call,                 \* the arguments and profiles of the caller's analyze_email call
  steps,                \* results after each block of that call
  verdict,              \* the dict that call returned, held by the caller
  repeat,               \* what the same call returned when the caller made it again
  data,                 \* DataProcessor.data
  training_data,        \* what the last get_training_data call returned
  raised,               \* whether that call ended in an exception
  pc,                   \* the position in the module body of routes.py
  disk,                 \* the file at dataset_path
  email_analyzer,       \* routes.email_analyzer
  scoring,              \* a thread in analyze_email: its position and the
                        \* attribute values it has read
  updating,             \* a thread in update_training_data: its position and
                        \* the profiles before its call
  store,                \* the committed rows of the email, email_alert and
                        \* user_preference tables
  response,             \* what the last request was answered with
  oauth_state,          \* session['oauth_state'] of each user's session
  gmail,                \* email_integration_routes.gmail
  instance,             \* the files of the instance directory
  now                   \* the last reading of the clock kept in a row

analyzer_vars == <<trained_data, spam_keywords, university_keywords, common_spam_domains,
                   updates, held, update_call, call, steps, verdict, repeat>>

processor_vars == <<data, training_data, raised>>

startup_vars == <<pc, disk, email_analyzer>>

thread_vars == <<scoring, updating>>

\* no thread is inside analyze_email / update_training_data
NoThread == [pc |-> "idle"]

web_vars == <<response, oauth_state, gmail, instance, now>>

vars == <<analyzer_vars, processor_vars, startup_vars, thread_vars, store, web_vars>>

\* the analyzer object
Self ==
  [trained_data |-> trained_data,
   spam_keywords |-> spam_keywords,
   university_keywords |-> university_keywords,
   common_spam_domains |-> common_spam_domains]

\* the three profiles the scorer reads
Profiles ==
  [spam_keywords |-> spam_keywords,
   university_keywords |-> university_keywords,
   common_spam_domains |-> common_spam_domains]

SetSelf(self) ==
  /\ trained_data' = self.trained_data
  /\ spam_keywords' = self.spam_keywords
  /\ university_keywords' = self.university_keywords
  /\ common_spam_domains' = self.common_spam_domains

\* what a caller can pass as trained_data or new_data
TrainingInputs == {None, Some(EmptyDict)} \cup {Some(c) : c \in Corpora}

Init ==
  /\ \E td \in TrainingInputs :
       LET self == __init__(td)
       IN  /\ trained_data = self.trained_data
           /\ spam_keywords = self.spam_keywords
           /\ university_keywords = self.university_keywords
           /\ common_spam_domains = self.common_spam_domains
  /\ updates = 0
  /\ held = <<>>
  /\ update_call = None
  /\ call = None
  /\ steps = <<>>
  /\ verdict = None
  /\ repeat = None
  /\ data = None
  /\ training_data = None
  /\ raised = FALSE
  /\ pc = "before"
  /\ disk = None
  /\ email_analyzer = None
  /\ scoring = NoThread
  /\ updating = NoThread
  /\ store = [emails |-> <<>>, alerts |-> <<>>]
  /\ response = None
  /\ oauth_state = [u \in {1, 2} |-> None]
  /\ gmail = None
  /\ instance = <<>>
  /\ now = 0

\* a caller without a result in hand calls update_training_data; `kept' is
\* whether it keeps a reference to the dict it passes
UpdateTrainingData(new_data, kept) ==
  LET out == update_training_data(Self, new_data)
  IN  /\ IsNone(call)
      /\ IsNone(update_call)
      /\ out.returned => updates < MaxUpdates
      /\ SetSelf(out.self)
      /\ updates' = IF out.returned THEN updates + 1 ELSE updates
      /\ held' = held_after_update(held, trained_data, new_data, kept)
      /\ update_call' = Some([new_data |-> new_data, before |-> Self,
                              returned |-> out.returned])
      /\ UNCHANGED <<call, steps, verdict, repeat, processor_vars, startup_vars, thread_vars, store, web_vars>>

\* the caller is done with the value update_training_data returned
DropReturned ==
  /\ ~IsNone(update_call)
  /\ update_call' = None
  /\ UNCHANGED <<trained_data, spam_keywords, university_keywords,
                 common_spam_domains, updates, held, call, steps, verdict, repeat,
                 processor_vars, startup_vars, thread_vars, store, web_vars>>

\* the orders list(spam_matches) can have in a call: the set is only
\* listed when the spam-keyword block is entered
MatchOrders(self, subject, body) ==
  IF self.spam_keywords /= {} /\ Cardinality(spam_matches(self, subject, body)) >= 3
    THEN IterationOrders(spam_matches(self, subject, body))
    ELSE {<<>>}

\* a caller without a result in hand calls analyze_email
AnalyzeEmail(sender, subject, body, user_preferences) ==
  /\ IsNone(call)
  /\ IsNone(update_call)
  /\ \E order \in MatchOrders(Self, subject, body) :
       LET all == analyze_steps(Self, sender, subject, body, user_preferences, order)
       IN  /\ steps' = all
           /\ verdict' = Some(all[Len(all)])
  /\ call' = Some([sender |-> sender, subject |-> subject, body |-> body,
                   user_preferences |-> user_preferences, profiles |-> Profiles])
  /\ UNCHANGED <<trained_data, spam_keywords, university_keywords,
                 common_spam_domains, updates, held, update_call, repeat, processor_vars, startup_vars, thread_vars, store, web_vars>>

\* the second call working on the dict and lists of the first, as it would
\* with a results dict created once and shared by the calls
AnalyzeAgain_shared_results ==
  /\ ~IsNone(call)
  /\ IsNone(repeat)
  /\ LET c == Val(call)
     IN  \E order \in MatchOrders(Self, c.subject, c.body) :
           LET v == analyze_email(Self, c.sender, c.subject, c.body,
                                  c.user_preferences, order)
               shared == [v EXCEPT
                            !.spam_indicators = Val(verdict).spam_indicators \o @,
                            !.importance_indicators = Val(verdict).importance_indicators \o @]
           IN  /\ repeat' = Some([profiles |-> Profiles, verdict |-> shared])
               /\ verdict' = Some(shared)
  /\ UNCHANGED <<trained_data, spam_keywords, university_keywords,
                 common_spam_domains, updates, held, update_call, call, steps,
                 processor_vars, startup_vars, thread_vars, store, web_vars>>

\* the caller makes the same call once more, keeping the first result
AnalyzeAgain ==
  /\ ~IsNone(call)
  /\ IsNone(repeat)
  /\ LET c == Val(call)
     IN  \E order \in MatchOrders(Self, c.subject, c.body) :
           repeat' = Some([profiles |-> Profiles,
                           verdict |-> analyze_email(Self, c.sender, c.subject, c.body,
                                                     c.user_preferences, order)])
  /\ UNCHANGED <<trained_data, spam_keywords, university_keywords,
                 common_spam_domains, updates, held, update_call, call, steps, verdict,
                 processor_vars, startup_vars, thread_vars, store, web_vars>>

\* the caller is done with the results (its local `result' goes out of scope)
DropVerdict ==
  /\ ~IsNone(call)
  /\ call' = None
  /\ steps' = <<>>
  /\ verdict' = None
  /\ repeat' = None
  /\ UNCHANGED <<trained_data, spam_keywords, university_keywords,
                 common_spam_domains, updates, held, update_call, processor_vars, startup_vars, thread_vars, store, web_vars>>

Next ==
  \/ \E new_data \in TrainingInputs : UpdateTrainingData(new_data, FALSE)
  \/ \E sender \in Senders, subject \in Subjects, body \in Bodies,
        user_preferences \in Policies :
       AnalyzeEmail(sender, subject, body, user_preferences)
  \/ AnalyzeAgain
  \/ DropVerdict
  \/ DropReturned

Spec == Init /\ [][Next]_vars

(***************************************************************************)
(* The analyzer and a caller that keeps the dicts it passes                *)
(***************************************************************************)
CallerInit ==
  /\ \E td \in TrainingInputs :
       LET self == __init__(td)
       IN  /\ trained_data = self.trained_data
           /\ spam_keywords = self.spam_keywords
           /\ university_keywords = self.university_keywords
           /\ common_spam_domains = self.common_spam_domains
           /\ held = held_after_init(td)
  /\ updates = 0
  /\ update_call = None
  /\ call = None
  /\ steps = <<>>
  /\ verdict = None
  /\ repeat = None
  /\ data = None
  /\ training_data = None
  /\ raised = FALSE
  /\ pc = "before"
  /\ disk = None
  /\ email_analyzer = None
  /\ scoring = NoThread
  /\ updating = NoThread
  /\ store = [emails |-> <<>>, alerts |-> <<>>]
  /\ response = None
  /\ oauth_state = [u \in {1, 2} |-> None]
  /\ gmail = None
  /\ instance = <<>>
  /\ now = 0

CallerNext ==
  \/ \E new_data \in TrainingInputs : UpdateTrainingData(new_data, TRUE)
  \/ \E sender \in Senders, subject \in Subjects, body \in Bodies,
        user_preferences \in Policies :
       AnalyzeEmail(sender, subject, body, user_preferences)
  \/ AnalyzeAgain
  \/ DropVerdict
  \/ DropReturned

SpecCaller == CallerInit /\ [][CallerNext]_vars

(***************************************************************************)
(* The data processor as a state machine                                   *)
(***************************************************************************)
\* the number of rows of a dataset file
MaxRows == 2

RowKinds ==
  LET \* a row of the CSV file with the given label cell
      LabelledRow(label) ==
        [email |-> Some(<<"a","@","b",".","t","k">>), subject |-> Some(<<"O","f","f","e","r">>),
         body |-> Some(<<"R","e","a","d"," ","t","h","i","s">>), date |-> Some(<<"2","0","2","4","-","0","1","-","0","7">>),
         label |-> label]
      \* a row whose cells other than the label are missing
      BlankRow ==
        [email |-> None, subject |-> None, body |-> None, date |-> None,
         label |-> Some(<<"h","a","m">>)]
      LabelCells ==
        {Some(<<"s","p","a","m">>), Some(<<"S","P","A","M">>), Some(<<"h","a","m">>),
         Some(<<"u","n","i","v","e","r","s","i","t","y"," ","n","o","t","i","c","e">>),
         Some(<<"U","n","i","v","e","r","s","i","t","y"," ","N","o","t","i","c","e">>),
         Some(<<"u","n","i","v","e","r","s","i","t","y","_","n","o","t","i","c","e">>),
         Some(<<"p","r","o","m","o">>), None}
  IN  {LabelledRow(l) : l \in LabelCells} \cup {BlankRow}

\* the tables read_csv can yield
Datasets == UNION {[1..n -> RowKinds] : n \in 0..MaxRows}

\* what can be at a dataset path: nothing, a file read_csv raises on, or a
\* file it reads
Files ==
  {None, Some([readable |-> FALSE, rows |-> <<>>])}
    \cup {Some([readable |-> TRUE, rows |-> d]) : d \in Datasets}

DataInit ==
  /\ LET self == __init__(None)
     IN  /\ trained_data = self.trained_data
         /\ spam_keywords = self.spam_keywords
         /\ university_keywords = self.university_keywords
         /\ common_spam_domains = self.common_spam_domains
  /\ updates = 0
  /\ held = <<>>
  /\ update_call = None
  /\ call = None
  /\ steps = <<>>
  /\ verdict = None
  /\ repeat = None
  /\ data = None
  /\ training_data = None
  /\ raised = FALSE
  /\ pc = "before"
  /\ disk = None
  /\ email_analyzer = None
  /\ scoring = NoThread
  /\ updating = NoThread
  /\ store = [emails |-> <<>>, alerts |-> <<>>]
  /\ response = None
  /\ oauth_state = [u \in {1, 2} |-> None]
  /\ gmail = None
  /\ instance = <<>>
  /\ now = 0

\* DataProcessor(dataset_path): a new processor, nothing loaded or returned yet
NewProcessor ==
  /\ data' = None
  /\ training_data' = None
  /\ raised' = FALSE
  /\ UNCHANGED <<analyzer_vars, startup_vars, thread_vars, store, web_vars>>

\* load_dataset, before the caller has asked for the training data
LoadDataset(file) ==
  /\ IsNone(training_data) /\ ~raised
  /\ data' = load_dataset(data, file).data
  /\ UNCHANGED <<training_data, raised, analyzer_vars, startup_vars, thread_vars, store, web_vars>>

GetTrainingData ==
  LET out == get_training_data(data)
  IN  /\ raised' = out.raised
      /\ training_data' = IF out.raised THEN None ELSE Some(out.value)
      /\ UNCHANGED <<data, analyzer_vars, startup_vars, thread_vars, store, web_vars>>

DataNext ==
  \/ NewProcessor
  \/ \E file \in Files : LoadDataset(file)
  \/ GetTrainingData

SpecData == DataInit /\ [][DataNext]_vars

(***************************************************************************)
(* routes.py: the module body that sets email_analyzer                     *)
(***************************************************************************)
StartupInit ==
  /\ LET self == __init__(None)
     IN  /\ trained_data = self.trained_data
         /\ spam_keywords = self.spam_keywords
         /\ university_keywords = self.university_keywords
         /\ common_spam_domains = self.common_spam_domains
  /\ updates = 0
  /\ held = <<>>
  /\ update_call = None
  /\ call = None
  /\ steps = <<>>
  /\ verdict = None
  /\ repeat = None
  /\ data = None
  /\ training_data = None
  /\ raised = FALSE
  /\ pc = "exists"
  /\ disk \in Files
  /\ email_analyzer = None
  /\ scoring = NoThread
  /\ updating = NoThread
  /\ store = [emails |-> <<>>, alerts |-> <<>>]
  /\ response = None
  /\ oauth_state = [u \in {1, 2} |-> None]
  /\ gmail = None
  /\ instance = <<>>
  /\ now = 0

\* if os.path.exists(dataset_path): ... else: email_analyzer = EmailAnalyzer()
StartupExists ==
  /\ pc = "exists"
  /\ IF IsNone(disk)
     THEN /\ email_analyzer' = Some(__init__(None))
          /\ pc' = "done"
     ELSE /\ email_analyzer' = email_analyzer
          /\ pc' = "load"
  /\ UNCHANGED <<disk, analyzer_vars, processor_vars, thread_vars, store, web_vars>>

\* processor = DataProcessor(dataset_path); if processor.load_dataset():
\* the if has no else branch
StartupLoadDataset ==
  LET out == load_dataset(None, disk)
  IN  /\ pc = "load"
      /\ data' = out.data
      /\ pc' = IF out.returned THEN "train" ELSE "done"
      /\ UNCHANGED <<training_data, raised, disk, email_analyzer, analyzer_vars,
                     thread_vars, store, web_vars>>

\* training_data = processor.get_training_data();
\* email_analyzer = EmailAnalyzer(training_data), and the except branch
StartupTrain ==
  LET out == get_training_data(data)
  IN  /\ pc = "train"
      /\ raised' = out.raised
      /\ training_data' = IF out.raised THEN None ELSE Some(out.value)
      /\ email_analyzer' = IF out.raised THEN Some(__init__(None))
                           ELSE Some(__init__(Some(out.value)))
      /\ pc' = "done"
      /\ UNCHANGED <<data, disk, analyzer_vars, thread_vars, store, web_vars>>

StartupNext ==
  \/ StartupExists
  \/ StartupLoadDataset
  \/ StartupTrain

SpecStartup == StartupInit /\ [][StartupNext]_vars

(***************************************************************************)
(* analyze_email and update_training_data in two threads of one process,  *)
(* interleaved at the reads and writes of the analyzer's attributes        *)
(***************************************************************************)
ConcurrentInit ==
  /\ \E td \in TrainingInputs :
       LET self == __init__(td)
       IN  /\ trained_data = self.trained_data
           /\ spam_keywords = self.spam_keywords
           /\ university_keywords = self.university_keywords
           /\ common_spam_domains = self.common_spam_domains
  /\ updates = 0
  /\ held = <<>>
  /\ update_call = None
  /\ call = None
  /\ steps = <<>>
  /\ verdict = None
  /\ repeat = None
  /\ data = None
  /\ training_data = None
  /\ raised = FALSE
  /\ pc = "before"
  /\ disk = None
  /\ email_analyzer = None
  /\ scoring = NoThread
  /\ updating = NoThread
  /\ store = [emails |-> <<>>, alerts |-> <<>>]
  /\ response = None
  /\ oauth_state = [u \in {1, 2} |-> None]
  /\ gmail = None
  /\ instance = <<>>
  /\ now = 0

\* a thread enters analyze_email (no policy) and runs up to line 75
ScoreCall(sender, subject, body) ==
  /\ scoring.pc = "idle"
  /\ call' = Some([sender |-> sender, subject |-> subject, body |-> body,
                   user_preferences |-> None, profiles |-> Profiles])
  /\ scoring' = [pc |-> "common_spam_domains", common_spam_domains |-> None,
                 university_test |-> None, university_keywords |-> None,
                 spam_test |-> None, spam_keywords |-> None]
  /\ UNCHANGED <<trained_data, spam_keywords, university_keywords,
                 common_spam_domains, updates, held, update_call, steps, verdict, repeat,
                 updating, processor_vars, startup_vars, store, web_vars>>

\* the next attribute read of the scoring thread: self.common_spam_domains
\* at line 75, self.university_keywords at lines 90 and 93 and
\* self.spam_keywords at lines 110 and 113; the reads of lines 93 and 113
\* happen only when the tests of lines 90 and 110 found the set non-empty
ScoreRead ==
  /\ scoring.pc \in {"common_spam_domains", "university_test", "university_keywords",
                      "spam_test", "spam_keywords"}
  /\ scoring' =
       CASE scoring.pc = "common_spam_domains" ->
              [scoring EXCEPT !.common_spam_domains = Some(common_spam_domains),
                              !.pc = "university_test"]
         [] scoring.pc = "university_test" ->
              [scoring EXCEPT !.university_test = Some(university_keywords),
                              !.pc = IF university_keywords = {} THEN "spam_test"
                                     ELSE "university_keywords"]
         [] scoring.pc = "university_keywords" ->
              [scoring EXCEPT !.university_keywords = Some(university_keywords),
                              !.pc = "spam_test"]
         [] scoring.pc = "spam_test" ->
              [scoring EXCEPT !.spam_test = Some(spam_keywords),
                              !.pc = IF spam_keywords = {} THEN "return"
                                     ELSE "spam_keywords"]
         [] scoring.pc = "spam_keywords" ->
              [scoring EXCEPT !.spam_keywords = Some(spam_keywords),
                              !.pc = "return"]
  /\ UNCHANGED <<analyzer_vars, updating, processor_vars, startup_vars, store, web_vars>>

\* the scoring thread returns: its verdict is that of analyze_email on the
\* values it read (a set found empty by a test is not read again)
ScoreReturn ==
  /\ scoring.pc = "return"
  /\ LET c == Val(call)
         seen == [trained_data |-> trained_data,
                  common_spam_domains |-> Val(scoring.common_spam_domains),
                  university_keywords |->
                    IF IsNone(scoring.university_keywords) THEN {}
                    ELSE Val(scoring.university_keywords),
                  spam_keywords |->
                    IF IsNone(scoring.spam_keywords) THEN {}
                    ELSE Val(scoring.spam_keywords)]
     IN  \E order \in MatchOrders(seen, c.subject, c.body) :
           LET all == analyze_steps(seen, c.sender, c.subject, c.body, None, order)
           IN  /\ steps' = all
               /\ verdict' = Some(all[Len(all)])
  /\ scoring' = [scoring EXCEPT !.pc = "done"]
  /\ UNCHANGED <<trained_data, spam_keywords, university_keywords,
                 common_spam_domains, updates, held, update_call, call, repeat,
                 updating, processor_vars, startup_vars, store, web_vars>>

\* a thread enters update_training_data: the test of line 289 and the merge
\* of lines 292-300
UpdateCall(new_data) ==
  /\ updating.pc = "idle"
  /\ IF Falsy(new_data)
       THEN /\ updating' = [pc |-> "done", before |-> Profiles, returned |-> FALSE]
            /\ trained_data' = trained_data
       ELSE /\ updating' = [pc |-> "spam_keywords", before |-> Profiles,
                            returned |-> FALSE]
            /\ trained_data' = IF DOMAIN trained_data = {} THEN Val(new_data)
                               ELSE merge_training_data(trained_data, Val(new_data))
  /\ UNCHANGED <<spam_keywords, university_keywords, common_spam_domains, updates, held,
                 update_call, call, steps, verdict, repeat, scoring,
                 processor_vars, startup_vars, store, web_vars>>

\* the next attribute write of _extract_features_from_training_data:
\* self.spam_keywords at line 252, self.common_spam_domains at line 256 and
\* self.university_keywords at line 273, each skipped when its label has no
\* records; update_training_data returns True after the last
UpdateWrite ==
  LET post == _extract_features_from_training_data(Self)
  IN  /\ updating.pc \in {"spam_keywords", "common_spam_domains", "university_keywords"}
      /\ spam_keywords' = IF updating.pc = "spam_keywords" THEN post.spam_keywords
                          ELSE spam_keywords
      /\ common_spam_domains' = IF updating.pc = "common_spam_domains"
                                  THEN post.common_spam_domains
                                ELSE common_spam_domains
      /\ university_keywords' = IF updating.pc = "university_keywords"
                                  THEN post.university_keywords
                                ELSE university_keywords
      /\ updating' =
           CASE updating.pc = "spam_keywords" ->
                  [updating EXCEPT !.pc = "common_spam_domains"]
             [] updating.pc = "common_spam_domains" ->
                  [updating EXCEPT !.pc = "university_keywords"]
             [] updating.pc = "university_keywords" ->
                  [updating EXCEPT !.pc = "done", !.returned = TRUE]
      /\ updates' = IF updating.pc = "university_keywords" THEN updates + 1 ELSE updates
      /\ UNCHANGED <<trained_data, held, update_call, call, steps, verdict, repeat, scoring,
                     processor_vars, startup_vars, store, web_vars>>

ConcurrentNext ==
  \/ \E sender \in Senders, subject \in {DeanSubject, LotterySubject} :
       ScoreCall(sender, subject, LotteryBody)
  \/ ScoreRead
  \/ ScoreReturn
  \/ \E new_data \in TrainingInputs : UpdateCall(new_data)
  \/ UpdateWrite

SpecConcurrent == ConcurrentInit /\ [][ConcurrentNext]_vars

(***************************************************************************)
(* routes.py and email_integration_routes.py: the handlers that store the  *)
(* analyzed emails and their alerts                                        *)
(***************************************************************************)
\* the number of Email rows stored, and of messages get_email_list returns
MaxStored == 2

MaxMailbox == 2

\* the readings of datetime.now() / datetime.utcnow() that are kept in a row
MaxClock == 4

\* the emails submitted or fetched: the two test emails of train_model.py
\* and each sender of the two with the text of the other
Mails ==
  {[sender |-> DeanSender, subject |-> DeanSubject, body |-> DeanBody],
   [sender |-> LotterySender, subject |-> LotterySubject, body |-> LotteryBody],
   [sender |-> LotterySender, subject |-> DeanSubject, body |-> DeanBody],
   [sender |-> DeanSender, subject |-> LotterySubject, body |-> LotteryBody]}

\* the Date headers of the fetched messages
DateHeaders ==
  LET \* 'Mon, 01 Jan 2024 10:00:00 +0000'
      PaddedDate ==
        <<"M","o","n",","," ","0","1"," ","J","a","n"," ","2","0","2","4"," ","1",
          "0",":","0","0",":","0","0"," ","+","0","0","0","0">>
      \* 'Mon, 1 Jan 2024 10:00:00 +0000'
      UnpaddedDate ==
        <<"M","o","n",","," ","1"," ","J","a","n"," ","2","0","2","4"," ","1","0",
          ":","0","0",":","0","0"," ","+","0","0","0","0">>
  IN  {PaddedDate, UnpaddedDate}

\* the messages of a Gmail mailbox: the email, its Date header and whether
\* messages().get(format='full') answers for it (get_email_content returns
\* None on an HttpError)
Messages == [mail : Mails, date : DateHeaders, content : BOOLEAN]

\* a datetime: one parsed from a header, or a reading of the clock
ParsedDate(text) == [text |-> text, tick |-> 0]

ClockDate(tick) == [text |-> EmptyStr, tick |-> tick]

\* datetime.strptime(value[:25], '%a, %d %b %Y %H:%M:%S'), for a value whose
\* fields have their full width: the 25 characters must be 'Aaa, dd Aaa dddd
\* dd:dd:dd' with nothing left over; a one-digit day leaves the blank before
\* the zone among the 25 characters and the call raises ValueError.  The
\* datetime is given by the fields after the weekday
strptime(value) ==
  LET text == Slice(value, 0, IF Len(value) < 25 THEN Len(value) ELSE 25)
      IsLetter(c) == IsUpperChar(c) \/ IsLowerChar(c)
      letters == {1, 2, 3, 9, 10, 11}
      digits == {6, 7, 13, 14, 15, 16, 18, 19, 21, 22, 24, 25}
  IN  IF /\ Len(text) = 25
         /\ \A i \in letters : IsLetter(text[i])
         /\ \A i \in digits : IsDigitChar(text[i])
         /\ text[4] = "," /\ text[20] = ":" /\ text[23] = ":"
         /\ \A i \in {5, 8, 12, 17} : text[i] = " "
        THEN Some(ParsedDate(Slice(text, 5, 25)))
        ELSE None

ParsedTable == Tabulate([d \in DateHeaders |-> strptime(d)])

\* 'received_date': datetime.now(), replaced by the parsed Date header
\* unless strptime raises ValueError
received_date_of(date, clock) ==
  IF IsNone(ParsedTable[date]) THEN ClockDate(clock) ELSE Val(ParsedTable[date])

\* the readings of the clock received_date_of keeps for the header
ticks_of(date) == IF IsNone(ParsedTable[date]) THEN 1 ELSE 0

\* the session's pending objects written to the tables, in the order they
\* were added: an Email row gets the next id of its table; an EmailAlert row
\* is written with the email_id it was constructed with.  `trigger' is the
\* Email object the alert was created for, named by the id it is stored under
RECURSIVE flush(_, _)
flush(tables, session) ==
  IF Len(session) = 0 THEN tables
  ELSE LET obj == Head(session)
       IN  IF obj.table = "email"
             THEN flush([tables EXCEPT
                           !.emails = Append(@, [obj.row EXCEPT !.id = Some(Len(@) + 1)])],
                        Tail(session))
             ELSE flush([tables EXCEPT !.alerts = Append(@, obj.row)], Tail(session))

\* Email(...) and, when asked for, EmailAlert(user_id=..., email_id=email.id):
\* the objects one analyzed email adds to the session; the Email is pending,
\* its id is not assigned before the flush.  `listed' is the Date header of
\* the listed message an imported row was added for, None for a row of the
\* form
added_objects(tables, session, user_id, mail, result, alert, received_date, listed) ==
  LET email == [id |-> None, user_id |-> user_id, sender |-> mail.sender,
                subject |-> mail.subject, body |-> mail.body,
                received_date |-> received_date,
                is_spam |-> result.is_spam, is_important |-> result.is_important,
                category |-> result.category, priority_score |-> result.priority_score,
                listed |-> listed]
      pending == Cardinality({i \in DOMAIN session : session[i].table = "email"})
      trigger == Len(tables.emails) + pending + 1
  IN  <<[table |-> "email", row |-> email]>>
        \o (IF alert
              THEN <<[table |-> "alert",
                      row |-> [user_id |-> user_id, email_id |-> email.id,
                               is_read |-> FALSE, trigger |-> trigger]]>>
            ELSE <<>>)

\* what a handler answers: the status, the flashed or JSON message and what
\* the handler worked with
Response(handler, user_id, status, message, detail) ==
  Some([handler |-> handler, user_id |-> user_id, status |-> status,
        message |-> message, detail |-> detail])

\* POST /email_analysis by a logged-in user: user_prefs is None for a user
\* without a preferences row, and then `user_prefs.enable_notifications'
\* raises for an important email and nothing is committed.  received_date
\* is the column default, datetime.utcnow() at the insert
EmailAnalysis(user_id, mail) ==
  /\ Len(store.emails) < MaxStored
  /\ now < MaxClock
  /\ \E user_prefs \in {store.preferences[user_id]} :
      \E order \in MatchOrders(Self, mail.subject, mail.body) :
       \E result \in {analyze_email(Self, mail.sender, mail.subject, mail.body,
                                    user_prefs, order)} :
         \E raises \in {result.is_important /\ IsNone(user_prefs)} :
           \E alert \in {~raises /\ result.is_important
                            /\ Val(user_prefs).enable_notifications} :
             \E session \in {added_objects(store, <<>>, user_id, mail, result, alert,
                                           ClockDate(now + 1), None)} :
               /\ store' = IF raises THEN store ELSE flush(store, session)
               /\ now' = IF raises THEN now ELSE now + 1
               /\ response' = Response("email_analysis", user_id,
                                       IF raises THEN 500 ELSE 200,
                                       IF raises THEN "AttributeError"
                                       ELSE "Email analyzed successfully", result)
  /\ UNCHANGED <<analyzer_vars, processor_vars, startup_vars, thread_vars,
                 oauth_state, gmail, instance>>

\* the handler without the test of the alert's owner
MarkAlertRead_any_owner(user_id, alert_id) ==
  /\ IF alert_id \notin DOMAIN store.alerts
       THEN /\ response' = Response("mark_alert_read", user_id, 404, "Not Found", alert_id)
            /\ UNCHANGED store
       ELSE /\ response' = Response("mark_alert_read", user_id, 200, "success", alert_id)
            /\ store' = [store EXCEPT !.alerts[alert_id].is_read = TRUE]
  /\ UNCHANGED <<analyzer_vars, processor_vars, startup_vars, thread_vars,
                 oauth_state, gmail, instance, now>>

\* POST /api/mark_alert_read/<alert_id> by a logged-in user
MarkAlertRead(user_id, alert_id) ==
  /\ IF alert_id \notin DOMAIN store.alerts
       THEN /\ response' = Response("mark_alert_read", user_id, 404, "Not Found", alert_id)
            /\ UNCHANGED store
       ELSE IF store.alerts[alert_id].user_id /= user_id
       THEN /\ response' = Response("mark_alert_read", user_id, 403, "Unauthorized", alert_id)
            /\ UNCHANGED store
       ELSE /\ response' = Response("mark_alert_read", user_id, 200, "success", alert_id)
            /\ store' = [store EXCEPT !.alerts[alert_id].is_read = TRUE]
  /\ UNCHANGED <<analyzer_vars, processor_vars, startup_vars, thread_vars,
                 oauth_state, gmail, instance, now>>

(***************************************************************************)
(* gmail_integration.py: GmailIntegration, and the files of the instance   *)
(* directory it reads and writes                                           *)
(***************************************************************************)
\* TOKEN_PICKLE_PATH
TOKEN_PICKLE == "token.pickle"

\* f'token_{user_id}.pickle'
user_token(user_id) == IF user_id = 1 THEN "token_1.pickle" ELSE "token_2.pickle"

CREDENTIALS_JSON == "credentials.json"

\* GmailIntegration(credentials_file=credentials_file)
GmailIntegration == [credentials |-> None, service |-> None]

\* the credentials a token exchange of the callback of user_id returns
Credentials(user_id) == [granted_to |-> user_id]

\* the directory with one file more, or one file replaced
write_file(files, path, content) ==
  [p \in DOMAIN files \cup {path} |-> IF p = path THEN content ELSE files[p]]

\* load_credentials(user_id): the token file of the user is read when it
\* exists, self.credentials is kept as it is when it does not; expired
\* credentials are refreshed and written to the token path of the user
\* (`refresh' is "fresh", "refreshed" or "failed", the last one raising)
load_credentials(self, files, user_id, refresh) ==
  LET token_path == IF user_id /= 0 THEN user_token(user_id) ELSE TOKEN_PICKLE
      loaded == IF token_path \in DOMAIN files
                  THEN [self EXCEPT !.credentials = Some(files[token_path])]
                  ELSE self
      expired == ~IsNone(loaded.credentials) /\ refresh /= "fresh"
  IN  [self |-> loaded,
       files |-> IF expired /\ refresh = "refreshed"
                   THEN write_file(files, token_path, Val(loaded.credentials))
                   ELSE files,
       raised |-> expired /\ refresh = "failed",
       returned |-> ~IsNone(loaded.credentials)]

\* build_service(): the service works with the credentials it was built with
build_service(self) ==
  IF IsNone(self.credentials) THEN self ELSE [self EXCEPT !.service = self.credentials]

\* fetch_token(redirect_uri, auth_code, state): Flow.from_client_secrets_file
\* raises without the credentials file and flow.fetch_token raises when
\* Google refuses the code; otherwise the credentials are kept and pickled
fetch_token(self, files, user_id, granted) ==
  IF CREDENTIALS_JSON \notin DOMAIN files \/ ~granted
    THEN [self |-> self, files |-> files, raised |-> TRUE]
    ELSE [self |-> [self EXCEPT !.credentials = Some(Credentials(user_id))],
          files |-> write_file(files, TOKEN_PICKLE, Credentials(user_id)),
          raised |-> FALSE]

\* get_email_list(): the metadata of the messages, each with the
\* received_date its Date header gives; `clock' is the last reading kept
RECURSIVE get_email_list(_, _)
get_email_list(emails, clock) ==
  IF Len(emails) = 0 THEN <<>>
  ELSE LET email_data == Head(emails)
           ticks == ticks_of(email_data.date)
       IN  <<[mail |-> email_data.mail, date |-> email_data.date,
              content |-> email_data.content,
              received_date |-> received_date_of(email_data.date, clock + ticks)]>>
             \o get_email_list(Tail(emails), clock + ticks)

RECURSIVE listing_ticks(_)
listing_ticks(emails) ==
  IF Len(emails) = 0 THEN 0 ELSE ticks_of(Head(emails).date) + listing_ticks(Tail(emails))

(***************************************************************************)
(* email_integration_routes.py: the import of the fetched messages         *)
(***************************************************************************)
\* one pass of the loop of import_emails, from the tables, the session, the
\* count and the clock the passes before it left: the query for an existing
\* row flushes the session first; a message already stored for the user
\* with the listed sender, subject and received_date, or whose content
\* cannot be fetched, is skipped; the row gets the received_date that
\* get_email_content read
import_pass(before, self, user_id, email_data) ==
  LET mail == email_data.mail
      existing(flushed) ==
        \E i \in DOMAIN flushed.emails :
           /\ flushed.emails[i].user_id = user_id
           /\ flushed.emails[i].sender = mail.sender
           /\ flushed.emails[i].subject = mail.subject
           /\ flushed.emails[i].received_date = email_data.received_date
      order == CHOOSE o \in MatchOrders(self, mail.subject, mail.body) : TRUE
      after ==
        {IF existing(flushed) \/ ~email_data.content
           THEN [tables |-> flushed, session |-> <<>>,
                 imported_count |-> before.imported_count, clock |-> before.clock]
           ELSE [tables |-> flushed,
                 session |-> added_objects(flushed, <<>>, user_id, mail, analysis,
                                           analysis.is_important /\ ~analysis.is_spam,
                                           received_date_of(email_data.date, clock),
                                           Some(email_data.date)),
                 imported_count |-> before.imported_count + 1,
                 clock |-> clock] :
           flushed \in {flush(tables, before.session) : tables \in {before.tables}},
           analysis \in {analyze_email(self, mail.sender, mail.subject, mail.body,
                                       None, order)},
           clock \in {before.clock + ticks_of(email_data.date)}}
  IN  CHOOSE pass \in after : TRUE

\* the tables, the session, the count and the clock after the first k
\* passes of the loop
RECURSIVE import_loop(_, _, _, _, _, _)
import_loop(k, tables, self, user_id, emails, clock) ==
  IF k = 0 THEN [tables |-> tables, session |-> <<>>, imported_count |-> 0,
                 clock |-> clock]
  ELSE LET before == import_loop(k - 1, tables, self, user_id, emails, clock)
       IN  import_pass(before, self, user_id, emails[k])

\* the loop over the messages get_email_list returned, and the commit
import_emails(tables, self, user_id, emails, clock) ==
  CHOOSE committed \in {[tables |-> flush(after.tables, after.session),
                         imported_count |-> after.imported_count,
                         clock |-> after.clock] :
                          after \in {import_loop(Len(emails), tables, self, user_id,
                                                 emails, clock)}} :
    TRUE

\* POST of the Gmail import by a logged-in user: `mailbox' is what the Gmail
\* API lists for the credentials in use
ImportEmails(user_id, mailbox, refresh) ==
  /\ Len(store.emails) + Len(mailbox) <= MaxStored
  /\ now + 2 * listing_ticks(mailbox) <= MaxClock
  /\ \E created \in {IF IsNone(gmail) THEN GmailIntegration ELSE Val(gmail)} :
       \E loaded \in {load_credentials(created, instance, user_id, refresh)} :
         /\ instance' = loaded.files
         /\ IF loaded.raised
              THEN /\ gmail' = Some(loaded.self)
                   /\ response' = Response("import_emails", user_id, 500, "RefreshError",
                                           [credentials |-> loaded.self.credentials,
                                            imported_count |-> 0])
                   /\ UNCHANGED <<store, now>>
            ELSE IF ~loaded.returned
              THEN /\ gmail' = Some(loaded.self)
                   /\ response' = Response("import_emails", user_id, 302,
                                           "Could not load Gmail credentials",
                                           [credentials |-> None, imported_count |-> 0])
                   /\ UNCHANGED <<store, now>>
            ELSE \E built \in {build_service(loaded.self)} :
                   \E emails \in {get_email_list(mailbox, now)} :
                     \E done \in {import_emails(store, Self, user_id, emails,
                                                now + listing_ticks(mailbox))} :
                       /\ gmail' = Some(built)
                       /\ store' = done.tables
                       /\ now' = done.clock
                       /\ response' = Response("import_emails", user_id, 302,
                                               "Successfully imported",
                                               [credentials |-> built.service,
                                                imported_count |-> done.imported_count])
  /\ UNCHANGED <<analyzer_vars, processor_vars, startup_vars, thread_vars, oauth_state>>

\* the rows of user_preference: user 1 has a row with a whitelist, user 2
\* has another policy or no row
Preferences ==
  {p \in [{1, 2} -> Policies] :
     /\ ~IsNone(p[1])
     /\ p[2] /= p[1]
     /\ get_whitelist(Val(p[1])) /= <<>>}

\* the instance directory a process starts with: the client secrets
\* uploaded, and the token of user 1 from an earlier authorization or none
StoreInstances ==
  {[p \in {CREDENTIALS_JSON} |-> "client secrets"],
   [p \in {CREDENTIALS_JSON, TOKEN_PICKLE, user_token(1)} |->
      IF p = CREDENTIALS_JSON THEN "client secrets" ELSE Credentials(1)]}

StoreInit ==
  /\ LET self == __init__(None)
     IN  /\ trained_data = self.trained_data
         /\ spam_keywords = self.spam_keywords
         /\ university_keywords = self.university_keywords
         /\ common_spam_domains = self.common_spam_domains
  /\ updates = 0
  /\ held = <<>>
  /\ update_call = None
  /\ call = None
  /\ steps = <<>>
  /\ verdict = None
  /\ repeat = None
  /\ data = None
  /\ training_data = None
  /\ raised = FALSE
  /\ pc = "done"
  /\ disk = None
  /\ email_analyzer = Some(__init__(None))
  /\ scoring = NoThread
  /\ updating = NoThread
  /\ \E preferences \in Preferences :
       store = [emails |-> <<>>, alerts |-> <<>>, preferences |-> preferences]
  /\ response = None
  /\ oauth_state = [u \in {1, 2} |-> None]
  /\ gmail = None
  /\ instance \in StoreInstances
  /\ now = 0

StoreNext ==
  \/ \E user_id \in {1, 2}, mail \in Mails : EmailAnalysis(user_id, mail)
  \/ \E user_id \in {1, 2}, n \in 0..MaxMailbox :
       \E mailbox \in [1..n -> {m \in Messages :
                                  /\ m.mail.subject = DeanSubject
                                  /\ m.content \/ ~IsNone(ParsedTable[m.date])}] :
         ImportEmails(user_id, mailbox, "fresh")
  \/ \E user_id \in {1, 2}, alert_id \in 1..(MaxStored + 1) :
       MarkAlertRead(user_id, alert_id)

SpecStore == StoreInit /\ [][StoreNext]_vars

\* the requests of the form and of the alert list alone
AlertsNext ==
  \/ \E user_id \in {1, 2}, mail \in Mails : EmailAnalysis(user_id, mail)
  \/ \E user_id \in {1, 2}, alert_id \in 1..(MaxStored + 1) :
       MarkAlertRead(user_id, alert_id)

SpecAlerts == StoreInit /\ [][AlertsNext]_vars

(***************************************************************************)
(* email_integration_routes.py: the OAuth handlers                         *)
(***************************************************************************)
\* the state values flow.authorization_url() generates
OAuthStates == {"state-a", "state-b"}

\* the authorization codes Google hands out
Codes == {"code-a"}

\* GET /integrations/gmail/authorize by a logged-in user: `state' is the
\* value flow.authorization_url() generated for this request
AuthorizeGmail(user_id, state) ==
  /\ IF CREDENTIALS_JSON \notin DOMAIN instance
       THEN /\ response' = Response("authorize_gmail", user_id, 302,
                                    "Credentials file not found", None)
            /\ UNCHANGED <<gmail, oauth_state>>
       ELSE /\ gmail' = Some(GmailIntegration)
            /\ oauth_state' = [oauth_state EXCEPT ![user_id] = Some(state)]
            /\ response' = Response("authorize_gmail", user_id, 302, "auth_url", Some(state))
  /\ UNCHANGED <<analyzer_vars, processor_vars, startup_vars, thread_vars,
                 store, instance, now>>

\* GET /auth/gmail/callback by a logged-in user: `code' and `state' are the
\* request arguments, None when absent; `granted' is whether Google accepts
\* the code
GmailCallback(user_id, code, state, granted) ==
  /\ IF IsNone(code)
       THEN /\ response' = Response("gmail_callback", user_id, 302,
                                    "Authorization failed or was cancelled",
                                    [code |-> code, state |-> state,
                                     session_state |-> oauth_state[user_id]])
            /\ UNCHANGED <<gmail, oauth_state, instance>>
       ELSE \E session_state \in {oauth_state[user_id]} :
              /\ oauth_state' = [oauth_state EXCEPT ![user_id] = None]
              /\ IF state /= session_state
                   THEN /\ response' = Response("gmail_callback", user_id, 302,
                                                "State verification failed",
                                                [code |-> code, state |-> state,
                                                 session_state |-> session_state])
                        /\ UNCHANGED <<gmail, instance>>
                   ELSE \E created \in {IF IsNone(gmail) THEN GmailIntegration
                                        ELSE Val(gmail)} :
                          \E fetched \in {fetch_token(created, instance, user_id, granted)} :
                            /\ gmail' = Some(fetched.self)
                            /\ instance' =
                                 IF ~fetched.raised /\ TOKEN_PICKLE \in DOMAIN fetched.files
                                   THEN write_file(fetched.files, user_token(user_id),
                                                   fetched.files[TOKEN_PICKLE])
                                   ELSE fetched.files
                            /\ response' = Response("gmail_callback", user_id, 302,
                                                    IF fetched.raised
                                                      THEN "Error completing authorization"
                                                      ELSE "Successfully connected to Gmail",
                                                    [code |-> code, state |-> state,
                                                     session_state |-> session_state])
  /\ UNCHANGED <<analyzer_vars, processor_vars, startup_vars, thread_vars, store, now>>

\* a mailbox with the first test email of train_model.py, or an empty one
SmallMailboxes ==
  {<<>>} \cup {<<m>> : m \in {m \in Messages :
                                /\ m.mail.sender = DeanSender
                                /\ m.mail.subject = DeanSubject
                                /\ m.content
                                /\ ~IsNone(ParsedTable[m.date])}}

GmailInit ==
  /\ LET self == __init__(None)
     IN  /\ trained_data = self.trained_data
         /\ spam_keywords = self.spam_keywords
         /\ university_keywords = self.university_keywords
         /\ common_spam_domains = self.common_spam_domains
  /\ updates = 0
  /\ held = <<>>
  /\ update_call = None
  /\ call = None
  /\ steps = <<>>
  /\ verdict = None
  /\ repeat = None
  /\ data = None
  /\ training_data = None
  /\ raised = FALSE
  /\ pc = "done"
  /\ disk = None
  /\ email_analyzer = Some(__init__(None))
  /\ scoring = NoThread
  /\ updating = NoThread
  /\ store = [emails |-> <<>>, alerts |-> <<>>,
              preferences |-> CHOOSE p \in Preferences : TRUE]
  /\ response = None
  /\ oauth_state = [u \in {1, 2} |-> None]
  /\ gmail = None
  /\ instance \in {<<>>, [p \in {CREDENTIALS_JSON} |-> "client secrets"]}
  /\ now = 0

GmailNext ==
  \/ \E user_id \in {1, 2}, state \in OAuthStates : AuthorizeGmail(user_id, state)
  \/ \E user_id \in {1, 2}, code \in {None} \cup {Some(c) : c \in Codes},
        state \in {None} \cup {Some(s) : s \in OAuthStates}, granted \in BOOLEAN :
       GmailCallback(user_id, code, state, granted)
  \/ \E user_id \in {1, 2}, mailbox \in SmallMailboxes,
        refresh \in {"fresh", "refreshed", "failed"} :
       ImportEmails(user_id, mailbox, refresh)

SpecGmail == GmailInit /\ [][GmailNext]_vars

(***************************************************************************)
(* Properties of analyze_email                                             *)
(***************************************************************************)
\* the caller holds the verdict of a call
Called == ~IsNone(call)

InUnitInterval(x) == FGe(x, F0_0) /\ FGe(F1_0, x)

\* C1: the priority_score of every verdict analyze_email returns, whatever
\* the email, the policy and the profiles, satisfies 0 <= priority_score <= 1
C1_ScoreInUnitInterval ==
  /\ Called => InUnitInterval(Val(verdict).priority_score)
  /\ ~IsNone(repeat) => InUnitInterval(Val(repeat).verdict.priority_score)

\* a call whose score was negative before the cap and is returned as 0
C1_NegativeScoreCapped ==
  /\ Called
  /\ FGt(F0_0, steps[12].priority_score)
  /\ Val(verdict).priority_score = F0_0

\* C2: the returned is_important equals (returned priority_score >= threshold),
\* the threshold being the policy's priority_threshold, or 0.7 without a policy
C2_ImportantIffFinalScoreMeetsThreshold ==
  Called =>
    (Val(verdict).is_important <=>
       FGe(Val(verdict).priority_score, threshold_of(Val(call).user_preferences)))

\* whether the sender contains, case-insensitively, an entry of the blacklist
BlacklistedTable ==
  Tabulate([p \in Senders \X {Val(o) : o \in Policies \ {None}} |->
     \E i \in DOMAIN get_blacklist(p[2]) :
        Contains(lower(p[1]), lower(get_blacklist(p[2])[i]))])

Blacklisted(c) ==
  /\ ~IsNone(c.user_preferences)
  /\ BlacklistedTable[<<c.sender, Val(c.user_preferences)>>]

\* C3: with a policy whose blacklist has an entry the sender contains
\* (case-insensitively), the verdict has is_spam = true whatever the rest of
\* the call and the profiles are, and no step after the blacklist resets it
C3_BlacklistedSenderIsSpam ==
  /\ (Called /\ Blacklisted(Val(call))) =>
        /\ Val(verdict).is_spam
        /\ \A k \in DOMAIN steps : steps[k].is_spam
  /\ (~IsNone(repeat) /\ Blacklisted(Val(call))) => Val(repeat).verdict.is_spam

\* a blacklisted sender that nothing else marks as spam: no spam domain, a
\* structural sub-score of at most 0.5, and a portal phrase in the body
C3_SpamByBlacklistAlone ==
  /\ Called
  /\ Blacklisted(Val(call))
  /\ DomainTable[Val(call).sender] \notin Val(call).profiles.common_spam_domains
  /\ ~FGt(SpamScoreTable[<<Val(call).subject, Val(call).body>>], F0_5)
  /\ PortalTable[Val(call).body]
  /\ Val(verdict).is_spam

\* the rules of _categorize_email in the order the claim gives them
CategoryRules ==
  << [category |-> Academic, keywords |-> academic_words],
     [category |-> Administrative, keywords |-> administrative_words],
     [category |-> Event, keywords |-> event_words],
     [category |-> Deadline, keywords |-> deadline_words],
     [category |-> Personal, keywords |-> personal_words] >>

\* the rules that have a keyword occurring in the text
MatchingRules(text) ==
  {i \in DOMAIN CategoryRules :
     \E k \in DOMAIN CategoryRules[i].keywords :
        Contains(text, CategoryRules[i].keywords[k])}

FirstRuleCategory(subject, body) ==
  LET hits == MatchingRules(lower(subject) \o <<" ">> \o lower(body))
  IN  IF hits = {} THEN Other
      ELSE CategoryRules[CHOOSE i \in hits : \A j \in hits : i <= j].category

FirstRuleTable == Tabulate([p \in Subjects \X Bodies |-> FirstRuleCategory(p[1], p[2])])

LECTURE == <<"l","e","c","t","u","r","e">>

SEMINAR == <<"s","e","m","i","n","a","r">>

LectureAndSeminarTable ==
  Tabulate([p \in Subjects \X Bodies |->
     LET text == lower(p[1]) \o <<" ">> \o lower(p[2])
     IN  Contains(text, LECTURE) /\ Contains(text, SEMINAR)])

\* C4: the category _categorize_email returns is that of the first rule, in
\* the order Academic, Administrative, Event, Deadline, Personal, with a
\* keyword in the lowercased subject + ' ' + body, and Other when no rule
\* matches; a text with both 'lecture' and 'seminar' is Academic
C4_FirstMatchingRuleWins ==
  Called =>
    LET text == <<Val(call).subject, Val(call).body>>
    IN  /\ steps[4].category = FirstRuleTable[text]
        /\ LectureAndSeminarTable[text] => steps[4].category = Academic

\* a text with an Academic and an Event keyword, classified Academic
C4_LectureBeforeSeminar ==
  /\ Called
  /\ LectureAndSeminarTable[<<Val(call).subject, Val(call).body>>]
  /\ steps[4].category = Academic

\* C5: two analyze_email calls with the same sender, subject, body and policy
\* against the same profiles return the same verdict in every field, the
\* text of the spam-words indicator included
C5_RepeatedCallSameVerdict ==
  (Called /\ ~IsNone(repeat) /\ Val(repeat).profiles = Val(call).profiles) =>
     Val(repeat).verdict = Val(verdict)

Untrained(profiles) ==
  /\ profiles.spam_keywords = {}
  /\ profiles.university_keywords = {}
  /\ profiles.common_spam_domains = {}

\* C6 as stated: an untrained analyzer never returns is_university_notice =
\* true and never applies the university-keyword or spam-keyword adjustment
C6_UntrainedNeverUniversityNotice ==
  (Called /\ Untrained(Val(call).profiles)) =>
     /\ ~Val(verdict).is_university_notice
     /\ steps[5] = steps[4]
     /\ steps[7] = steps[6]

\* C6, amended: an untrained analyzer never applies the university-keyword
\* (+0.3) or spam-keyword (-0.3) adjustment, and it returns
\* is_university_notice = true exactly when the body holds a portal phrase
C6_UntrainedNoticeOnlyByPortal ==
  (Called /\ Untrained(Val(call).profiles)) =>
     /\ steps[5] = steps[4]
     /\ steps[7] = steps[6]
     /\ ~steps[9].is_university_notice
     /\ Val(verdict).is_university_notice <=> PortalTable[Val(call).body]

\* an untrained call on a body with a portal phrase: no notice up to the
\* portal block, a notice in the verdict
C6_UntrainedPortalNotice ==
  /\ Called
  /\ Untrained(Val(call).profiles)
  /\ PortalTable[Val(call).body]
  /\ steps[5] = steps[4]
  /\ ~steps[9].is_university_notice
  /\ Val(verdict).is_university_notice

DEAN_FRAGMENT ==
  <<"c","o","u","r","s","e"," ","r","e","g","i","s","t","r","a","t","i","o","n","s"," ","m","u","s","t"," ","b","e"," ","c","o","m","p","l","e","t","e","d"," ","b","y"," ","F","r","i","d","a","y","."," ","P","l","e","a","s","e"," ","c","h","e","c","k"," ","t","h","e"," ","u","n","i","v","e","r","s","i","t","y"," ","p","o","r","t","a","l">>

DeanBodies == {b \in Bodies : Contains(b, DEAN_FRAGMENT)}

UNIVERSITY_EDU == <<"u","n","i","v","e","r","s","i","t","y",".","e","d","u">>

\* the scenario of the dean's email, called without a policy
DeanCall ==
  /\ Called
  /\ Val(call).sender = DeanSender
  /\ Val(call).subject = DeanSubject
  /\ Val(call).body \in DeanBodies
  /\ IsNone(Val(call).user_preferences)

\* C7 as stated: the dean's email without a policy is Academic, a university
\* notice, important and scored at least 0.7 in every state of the profiles
C7_DeanScenarioImportant ==
  DeanCall =>
    /\ Val(verdict).category = Academic
    /\ Val(verdict).is_university_notice
    /\ Val(verdict).is_important
    /\ FGe(Val(verdict).priority_score, F0_7)

\* C7, amended: the dean's email without a policy is Academic and a
\* university notice in every state of the profiles; it is important with a
\* score of at least 0.7 whenever nothing marks it as spam, that is
\* 'university.edu' is not a known spam domain and the structural sub-score
\* of subject and body is at most 0.5
C7_DeanScenarioImportantUnlessSpam ==
  DeanCall =>
    /\ Val(verdict).category = Academic
    /\ Val(verdict).is_university_notice
    /\ (/\ UNIVERSITY_EDU \notin Val(call).profiles.common_spam_domains
        /\ ~FGt(SpamScoreTable[<<Val(call).subject, Val(call).body>>], F0_5))
         => /\ Val(verdict).is_important
            /\ FGe(Val(verdict).priority_score, F0_7)

\* the dean's email against spam domains learnt from a corpus, none of them
\* 'university.edu': important, with a score of at least 0.7
C7_DeanImportantWithSpamDomains ==
  /\ DeanCall
  /\ Val(call).profiles.common_spam_domains /= {}
  /\ UNIVERSITY_EDU \notin Val(call).profiles.common_spam_domains
  /\ ~Val(verdict).is_spam
  /\ Val(verdict).is_important
  /\ FGe(Val(verdict).priority_score, F0_7)

\* the structural sub-score of the call the caller made
SubScore == SpamScoreTable[<<Val(call).subject, Val(call).body>>]

\* the lottery scenario: no policy, untrained analyzer
LotteryCall ==
  /\ Called
  /\ Val(call).sender = LotterySender
  /\ Val(call).subject = LotterySubject
  /\ Val(call).body = LotteryBody
  /\ IsNone(Val(call).user_preferences)
  /\ Untrained(Val(call).profiles)

\* C8: when the structural sub-score exceeds 0.5, is_spam is set and the
\* score becomes max(0, score - sub-score) before the urgency step; the
\* lottery scenario yields is_spam, not is_important and a final score of 0
C8_StructuralSpamGate ==
  /\ (Called /\ FGt(SubScore, F0_5)) =>
        /\ steps[8].is_spam
        /\ steps[8].priority_score = FMax(F0_0, FSub(steps[7].priority_score, SubScore))
        /\ FGe(steps[8].priority_score, F0_0)
        /\ Val(verdict).is_spam
  /\ LotteryCall =>
        /\ Val(verdict).is_spam
        /\ ~Val(verdict).is_important
        /\ Val(verdict).priority_score = F0_0

\* the lottery scenario, its sub-score above 0.5 and above the score so far
C8_LotteryScenario ==
  /\ LotteryCall
  /\ FGt(SubScore, F0_5)
  /\ FGt(SubScore, steps[7].priority_score)
  /\ Val(verdict).priority_score = F0_0

(***************************************************************************)
(* Properties of the spam domain profile                                   *)
(***************************************************************************)
\* the spam records of the corpus the analyzer holds
SpamRecords == IF "spam" \in DOMAIN trained_data THEN trained_data["spam"] ELSE <<>>

HasAt(email) == Contains(email.sender, <<"@">>)

\* the domain a record stands for: the lowercased text after the last '@',
\* the whole lowercased sender when there is none
RecordDomain(email) ==
  LET at == {i \in DOMAIN email.sender : email.sender[i] = "@"}
      last == IF at = {} THEN 0 ELSE CHOOSE i \in at : \A j \in at : j <= i
  IN  lower(SubSeq(email.sender, last + 1, Len(email.sender)))

\* the top n of the domains the records stand for: by count, ties by first
\* occurrence
IsTopDomains(R, records, n) ==
  LET dom(i) == RecordDomain(records[i])
      keys == {dom(i) : i \in DOMAIN records}
      count(d) == Cardinality({i \in DOMAIN records : dom(i) = d})
      first(d) == CHOOSE i \in DOMAIN records : dom(i) = d /\ \A j \in 1..(i - 1) : dom(j) /= d
      before(d, e) == count(d) > count(e) \/ (count(d) = count(e) /\ first(d) < first(e))
  IN  /\ R \subseteq keys
      /\ Cardinality(R) = IF Cardinality(keys) < n THEN Cardinality(keys) ELSE n
      /\ \A d \in R, e \in keys \ R : before(d, e)

\* no call in progress and the analyzer holds spam records
ProfileDerived == IsNone(call) /\ Len(SpamRecords) > 0

\* the caller's sender has no '@' and is the sender of a spam record
DaemonCall ==
  /\ Called
  /\ ~Contains(Val(call).sender, <<"@">>)
  /\ \E i \in DOMAIN SpamRecords : SpamRecords[i].sender = Val(call).sender

\* the spam-domain block of the call flagged the sender's domain
FlaggedByDomain == steps[2] /= steps[1]

RecordsLabelled(text) ==
  LET rows == Val(data)
      labelled(row) == ~IsNone(row.label) /\ lower(Val(row.label)) = text
      kept == SelectSeq(rows, labelled)
  IN  [i \in DOMAIN kept |-> email_data_of(kept[i])]

\* get_training_data returned a corpus for a loaded dataset
CorpusReturned == ~IsNone(data) /\ ~IsNone(training_data)

\* the rows of the loaded dataset with the given label cell
RowsWithLabel(text) ==
  {i \in DOMAIN Val(data) : Val(data)[i].label = Some(text)}

AtMostOneListPerRow ==
  Len(Val(training_data)["spam"]) + Len(Val(training_data)["ham"])
    + Len(Val(training_data)["university_notice"]) <= Len(Val(data))

RecordsOf(label) == IF label \in DOMAIN trained_data THEN trained_data[label] ELSE <<>>

\* the words of the lowercased subject and body of the records of a label
WordsOf(label) ==
  UNION {Range(findall_words(lower(RecordsOf(label)[i].subject)))
           \cup Range(findall_words(lower(RecordsOf(label)[i].body))) :
         i \in DOMAIN RecordsOf(label)}

\* the keywords are lowercase words of more than 3 characters of the label
KeywordsFrom(keywords, label) ==
  /\ keywords \subseteq WordsOf(label)
  /\ \A k \in keywords : Len(k) > 3 /\ lower(k) = k

\* C11: after construction and after any updates, spam_keywords and
\* university_keywords hold at most 50 words and common_spam_domains at most
\* 10 domains; every keyword is lowercase, longer than 3 characters and a
\* word of the subject or body of a record of its own label in the corpus
\* held; ham records contribute to no profile
C11_ProfilesWithinCorpus ==
  IsNone(call) =>
    /\ Cardinality(spam_keywords) <= 50
    /\ Cardinality(university_keywords) <= 50
    /\ Cardinality(common_spam_domains) <= 10
    /\ KeywordsFrom(spam_keywords, "spam")
    /\ KeywordsFrom(university_keywords, "university_notice")
    /\ common_spam_domains \subseteq
          {RecordDomain(RecordsOf("spam")[i]) : i \in DOMAIN RecordsOf("spam")}

\* after an update, a corpus with more than 50 spam words and more than 10
\* spam domains, its profiles cut to 50 and 10, with ham records in it
C11_ProfilesCutAtTheTop ==
  /\ IsNone(call)
  /\ updates > 0
  /\ Len(RecordsOf("ham")) > 0
  /\ Cardinality({w \in WordsOf("spam") : Len(w) > 3}) > 50
  /\ Cardinality(spam_keywords) = 50
  /\ Cardinality(common_spam_domains) = 10

\* the caller holds the value of an update_training_data call
Updated == ~IsNone(update_call)

\* the records of a label in a corpus, none when the label is absent
LabelRecords(corpus, label) == IF label \in DOMAIN corpus THEN corpus[label] ELSE <<>>

\* C12: after a successful update_training_data(incoming) on an analyzer
\* holding corpus E, trained_data holds for each label the records of E
\* followed by those of incoming, and the three profiles equal those of a
\* fresh EmailAnalyzer constructed from that merged corpus
C12_UpdateIsMergeAndRederive ==
  (Updated /\ Val(update_call).returned) =>
     LET E        == Val(update_call).before.trained_data
         incoming == Val(Val(update_call).new_data)
         fresh    == __init__(Some(trained_data))
     IN  /\ DOMAIN trained_data = DOMAIN E \cup DOMAIN incoming
         /\ \A label \in DOMAIN trained_data :
               trained_data[label] = LabelRecords(E, label) \o LabelRecords(incoming, label)
         /\ spam_keywords = fresh.spam_keywords
         /\ university_keywords = fresh.university_keywords
         /\ common_spam_domains = fresh.common_spam_domains

\* an update that adds spam records to a corpus that had spam records and
\* profiles already
C12_SpamAddedToSpam ==
  /\ Updated
  /\ Val(update_call).returned
  /\ Val(update_call).before.spam_keywords /= {}
  /\ Len(LabelRecords(Val(Val(update_call).new_data), "spam")) > 0
  /\ spam_keywords /= Val(update_call).before.spam_keywords

\* C13: update_training_data returns False exactly when new_data is None or
\* empty, and then leaves trained_data and the three profiles unchanged; for
\* every other input it returns True
C13_FalseExactlyOnEmptyInput ==
  Updated =>
    LET new_data == Val(update_call).new_data
        empty    == new_data = None \/ new_data = Some(EmptyDict)
    IN  /\ Val(update_call).returned <=> ~empty
        /\ empty => Self = Val(update_call).before

\* an update with an empty dict on a trained analyzer, returning False
C13_EmptyDictOnTrained ==
  /\ Updated
  /\ Val(update_call).new_data = Some(EmptyDict)
  /\ ~Val(update_call).returned
  /\ spam_keywords /= {}

(***************************************************************************)
(* Properties of get_training_data on rows with missing fields             *)
(***************************************************************************)
\* C14: get_training_data over a loaded dataset never ends in an exception
\* because of a row with a missing email, subject, body, date or label: the
\* missing value is defaulted to '' or the row is skipped, and every other
\* row is still categorized and returned
C14_MissingFieldNeverAborts ==
  ~IsNone(data) =>
    /\ ~raised
    /\ ~IsNone(training_data) =>
          /\ Val(training_data)["spam"] = RecordsLabelled(SPAM_LABEL)
          /\ Val(training_data)["ham"] = RecordsLabelled(HAM_LABEL)
          /\ Val(training_data)["university_notice"] = RecordsLabelled(UNIVERSITY_LABEL)

(***************************************************************************)
(* Properties of the start-up in routes.py                                 *)
(***************************************************************************)
\* C15: after the start-up in routes.py the module-level email_analyzer is a
\* usable EmailAnalyzer, trained or the untrained fallback, whatever the
\* outcome of loading the dataset (file absent, load_dataset returning
\* False, an exception); it is never None
C15_AnalyzerNeverNone ==
  pc = "done" => ~IsNone(email_analyzer)

(***************************************************************************)
(* Frame of analyze_email                                                  *)
(***************************************************************************)
\* a step in which analyze_email is called: the first call of a caller or
\* its second call with the same arguments
AnalyzeStep ==
  /\ ~IsNone(call')
  /\ call' /= call \/ repeat' /= repeat

\* C16: every analyze_email call leaves trained_data, spam_keywords,
\* university_keywords and common_spam_domains as they were before it, and
\* returns a verdict of its own: a result the caller still holds from an
\* earlier call is not changed by the call, and the new result carries no
\* indicator entries left by the earlier one
C16_AnalyzeChangesNothingShared ==
  [][AnalyzeStep =>
       /\ UNCHANGED <<trained_data, spam_keywords, university_keywords,
                      common_spam_domains, store>>
       /\ ~IsNone(call) => verdict' = verdict
       /\ ~IsNone(repeat') =>
             /\ Len(Val(repeat').verdict.spam_indicators)
                  = Len(Val(verdict').spam_indicators)
             /\ Len(Val(repeat').verdict.importance_indicators)
                  = Len(Val(verdict').importance_indicators)]_vars

\* a trained analyzer after two calls with the same arguments, both results
\* held, with spam and importance indicators in them
C16_TwoResultsHeld ==
  /\ Called
  /\ ~IsNone(repeat)
  /\ spam_keywords /= {}
  /\ Len(Val(verdict).spam_indicators) > 0
  /\ Len(Val(verdict).importance_indicators) > 0
  /\ Len(Val(repeat).verdict.spam_indicators) > 0

(***************************************************************************)
(* analyze_email interleaved with update_training_data                     *)
(***************************************************************************)
\* the scoring thread read every value it read from the profiles v
ReadsFrom(v) ==
  /\ scoring.common_spam_domains = Some(v.common_spam_domains)
  /\ scoring.university_test = Some(v.university_keywords)
  /\ IsNone(scoring.university_keywords)
       \/ scoring.university_keywords = Some(v.university_keywords)
  /\ scoring.spam_test = Some(v.spam_keywords)
  /\ IsNone(scoring.spam_keywords) \/ scoring.spam_keywords = Some(v.spam_keywords)

\* the profiles before the update (the current ones when no update has
\* begun) and those the update ends with
PreMerge == IF updating.pc = "idle" THEN Profiles ELSE updating.before

PostMerge ==
  LET post == _extract_features_from_training_data(Self)
  IN  [spam_keywords |-> post.spam_keywords,
       university_keywords |-> post.university_keywords,
       common_spam_domains |-> post.common_spam_domains]

\* C17: when an analyze_email call is interleaved with an
\* update_training_data call on the same analyzer, at the granularity of the
\* attribute reads and writes, the values of common_spam_domains,
\* university_keywords and spam_keywords the scoring call has read are all
\* those of one corpus version, all from before the merge or all from after
C17_ReadsFromOneVersion ==
  scoring.pc = "done" => ReadsFrom(PreMerge) \/ ReadsFrom(PostMerge)

(***************************************************************************)
(* Properties of the whitelist and the blacklist                           *)
(***************************************************************************)
Blanks == {" ", "\t", "\n", "\r"}

\* a text without its leading blanks
RECURSIVE DropBlanks(_)
DropBlanks(text) ==
  IF Len(text) > 0 /\ Head(text) \in Blanks THEN DropBlanks(Tail(text)) ELSE text

Reverse(text) == [i \in 1..Len(text) |-> text[Len(text) + 1 - i]]

Trimmed(text) == Reverse(DropBlanks(Reverse(DropBlanks(text))))

\* the entries of a comma-separated text, read left to right: piece is the
\* entry being read; an entry that is empty once trimmed is dropped
RECURSIVE Entries(_, _)
Entries(text, piece) ==
  LET entry == IF Trimmed(piece) = <<>> THEN <<>> ELSE <<Trimmed(piece)>>
  IN  IF Len(text) = 0 THEN entry
      ELSE IF Head(text) = "," THEN entry \o Entries(Tail(text), <<>>)
      ELSE Entries(Tail(text), Append(piece, Head(text)))

\* a text of commas and blanks only, the empty text included
BlankList(text) == \A i \in DOMAIN text : text[i] \in Blanks \cup {","}

\* the indicators with the given format among a list of indicators
WithFormat(indicators, fmt) == {i \in DOMAIN indicators : indicators[i].fmt = fmt}

\* C18: get_whitelist and get_blacklist return the comma-separated entries
\* of the policy text, trimmed, with the empty and whitespace-only entries
\* dropped; a blacklist (whitelist) that is blank or made of commas and
\* spaces only marks no sender as blocked (trusted)
C18_ListsTrimmedBlanksDropped ==
  (Called /\ ~IsNone(Val(call).user_preferences)) =>
     LET prefs == Val(Val(call).user_preferences)
     IN  /\ get_whitelist(prefs) = Entries(prefs.whitelist, <<>>)
         /\ get_blacklist(prefs) = Entries(prefs.blacklist, <<>>)
         /\ BlankList(prefs.blacklist) =>
               /\ ~steps[1].is_spam
               /\ WithFormat(steps[1].spam_indicators,
                             "Sender {sender} is in your blacklist") = {}
         /\ BlankList(prefs.whitelist) =>
               /\ ~steps[1].is_important
               /\ WithFormat(steps[1].importance_indicators,
                             "Sender {sender} is in your whitelist") = {}

\* a call with a blacklist of a comma between spaces and an empty whitelist,
\* the policy blocks leaving the results as they were
C18_BlankListsMarkNobody ==
  /\ Called
  /\ ~IsNone(Val(call).user_preferences)
  /\ Val(Val(call).user_preferences).blacklist = <<" ", ",", " ">>
  /\ get_blacklist(Val(Val(call).user_preferences)) = <<>>
  /\ steps[1] = InitialResults

(***************************************************************************)
(* Properties of the university-notice lock                                *)
(***************************************************************************)
\* C20: every verdict with is_university_notice set and is_spam unset has a
\* priority_score of at least 0.7, and so has is_important set whenever the
\* threshold in force is at most 0.7, in particular when no policy is given
C20_NoticeNotSpamIsImportant ==
  (Called /\ Val(verdict).is_university_notice /\ ~Val(verdict).is_spam) =>
     /\ FGe(Val(verdict).priority_score, F0_7)
     /\ FGe(F0_7, threshold_of(Val(call).user_preferences)) => Val(verdict).is_important
     /\ IsNone(Val(call).user_preferences) => Val(verdict).is_important

\* a call without a policy whose score before the lock is below 0.7, returned
\* as a notice that is not spam with the score 0.7
C20_ScoreRaisedByTheLock ==
  /\ Called
  /\ IsNone(Val(call).user_preferences)
  /\ Val(verdict).is_university_notice
  /\ ~Val(verdict).is_spam
  /\ ~FGe(steps[10].priority_score, F0_7)
  /\ Val(verdict).priority_score = F0_7
  /\ Val(verdict).is_important

(***************************************************************************)
(* Properties of the stored alerts                                         *)
(***************************************************************************)
\* C19: every EmailAlert committed by email_analysis or import_emails
\* references the user of the request and the stored Email it was created
\* for: its email_id is the id of that Email row, never null and never the
\* id of another email
C19_AlertReferencesItsEmail ==
  \A a \in DOMAIN store.alerts :
     LET alert == store.alerts[a]
     IN  /\ alert.trigger \in DOMAIN store.emails
         /\ alert.user_id = store.emails[alert.trigger].user_id
         /\ alert.email_id = store.emails[alert.trigger].id

(***************************************************************************)
(* Properties of the university-keyword match                              *)
(***************************************************************************)
\* the words of the call's subject and body found in the university profile
\* the call read
UniversityWordsMatched ==
  WordSetTable[<<Val(call).subject, Val(call).body>>] \cap Val(call).profiles.university_keywords

\* C21: whenever at least 3 distinct words of the lowercased subject and body
\* belong to university_keywords, the verdict has is_university_notice set and
\* a category among Academic, Administrative and Deadline: the category of
\* step 4 when it is one of the three, Administrative otherwise; and step 6
\* adds the important-category bonus of 0.3 with its indicator
C21_ThreeKeywordsMakeNotice ==
  (Called /\ Cardinality(UniversityWordsMatched) >= 3) =>
     /\ Val(verdict).is_university_notice
     /\ Val(verdict).category \in {Academic, Administrative, Deadline}
     /\ Val(verdict).category =
          IF steps[4].category \in {Academic, Administrative, Deadline}
            THEN steps[4].category
            ELSE Administrative
     /\ steps[6].priority_score = FAdd(steps[5].priority_score, F0_3)
     /\ Len(steps[6].importance_indicators) = Len(steps[5].importance_indicators) + 1
     /\ steps[6].importance_indicators[Len(steps[6].importance_indicators)].arg
          = Val(verdict).category

\* a call matching three keywords whose category of step 4 is none of the
\* three, returned as an Administrative notice with the bonus applied
C21_CategoryReplaced ==
  /\ Called
  /\ Cardinality(UniversityWordsMatched) >= 3
  /\ steps[4].category \in {Event, Personal, Other}
  /\ Val(verdict).category = Administrative
  /\ Val(verdict).is_university_notice
  /\ steps[6].priority_score = FAdd(steps[5].priority_score, F0_3)

(***************************************************************************)
(* Properties of the policy check                                          *)
(***************************************************************************)
\* whether the sender contains, case-insensitively, an entry of the whitelist
WhitelistedTable ==
  Tabulate([p \in Senders \X {Val(o) : o \in Policies \ {None}} |->
     \E i \in DOMAIN get_whitelist(p[2]) :
        Contains(lower(p[1]), lower(get_whitelist(p[2])[i]))])

Whitelisted(c) ==
  /\ ~IsNone(c.user_preferences)
  /\ WhitelistedTable[<<c.sender, Val(c.user_preferences)>>]

\* C22: the trusted-sender test runs before the blocked-sender test and both
\* run: for a sender matching a whitelist and a blacklist entry the results
\* after step 1 have is_spam set, priority_score 0.1 and an entry in both
\* indicator lists; for a sender matching the whitelist only the score after
\* step 1 is 0.9
C22_BlockedOverridesTrusted ==
  Called =>
    /\ (Whitelisted(Val(call)) /\ Blacklisted(Val(call))) =>
          /\ steps[1].is_spam
          /\ steps[1].priority_score = F0_1
          /\ steps[1].spam_indicators /= <<>>
          /\ steps[1].importance_indicators /= <<>>
    /\ (Whitelisted(Val(call)) /\ ~Blacklisted(Val(call))) =>
          /\ steps[1].priority_score = F0_9
          /\ ~steps[1].is_spam

\* a call whose sender is trusted and blocked by the same policy: both tests
\* left their mark, the blocked one last
C22_TrustedAndBlocked ==
  /\ Called
  /\ Whitelisted(Val(call))
  /\ Blacklisted(Val(call))
  /\ steps[1].is_important
  /\ steps[1].is_spam
  /\ steps[1].priority_score = F0_1
  /\ Len(steps[1].importance_indicators) = 1
  /\ Len(steps[1].spam_indicators) = 1

(***************************************************************************)
(* Properties of the structural sub-score                                  *)
(***************************************************************************)
\* the sub-score in tenths, as the sum of its parts: 1 for more than two '!'
\* in the subject, 2 for an upper-case subject of more than 10 characters, 3
\* for each suspicious phrase found and 2 for each body URL whose host ends
\* in a suspicious TLD
TenthsTable ==
  Tabulate([p \in Subjects \X Bodies |->
     LET subject == p[1]
         body == p[2]
         text == lower(subject \o <<" ">> \o body)
         urls == findall_urls(body, 0)
         marks == Cardinality({i \in DOMAIN subject : subject[i] = "!"})
         phrases == Cardinality({i \in DOMAIN suspicious_phrases :
                                   Contains(text, suspicious_phrases[i])})
         links == Cardinality({i \in DOMAIN urls :
                                 \E t \in DOMAIN suspicious_tlds :
                                    EndsWith(netloc(urls[i]), suspicious_tlds[t])})
     IN  (IF marks > 2 THEN 1 ELSE 0)
           + (IF isupper(subject) /\ Len(subject) > 10 THEN 2 ELSE 0)
           + 3 * phrases + 2 * links])

Tenths == TenthsTable[<<Val(call).subject, Val(call).body>>]

\* the number of tenths nearest to the float x, for 0 <= x < 4
NearestTenths(x) == ((x.hi \div 256) * 10 + 2^19) \div 2^20

MarkedStep == ~IsNone(response') /\ Val(response').handler = "mark_alert_read"

\* C24: mark_alert_read sets is_read only on an alert owned by the requesting
\* user: a request for an alert of another user is answered 403 and leaves
\* every alert as it was, a request for an own alert sets its is_read and
\* changes no other alert, and no other handler changes is_read
C24_OnlyOwnAlertsMarked ==
  [][/\ \A a \in DOMAIN store.alerts :
          store'.alerts[a].is_read /= store.alerts[a].is_read =>
             /\ MarkedStep
             /\ Val(response').detail = a
             /\ Val(response').user_id = store.alerts[a].user_id
             /\ store'.alerts[a].is_read
     /\ MarkedStep =>
          LET a == Val(response').detail
          IN  /\ Len(store'.alerts) = Len(store.alerts)
              /\ (a \in DOMAIN store.alerts /\ store.alerts[a].user_id /= Val(response').user_id) =>
                    /\ Val(response').status = 403
                    /\ store' = store
              /\ (a \in DOMAIN store.alerts /\ store.alerts[a].user_id = Val(response').user_id) =>
                    /\ Val(response').status = 200
                    /\ store'.alerts[a].is_read]_vars

\* a request for the alert of another user answered 403, the alert unread,
\* while an alert the requesting user owns has been marked
C24_ForeignAlertRefused ==
  /\ ~IsNone(response)
  /\ Val(response).handler = "mark_alert_read"
  /\ Val(response).status = 403
  /\ Val(response).detail \in DOMAIN store.alerts
  /\ store.alerts[Val(response).detail].user_id /= Val(response).user_id
  /\ ~store.alerts[Val(response).detail].is_read
  /\ \E a \in DOMAIN store.alerts :
        store.alerts[a].user_id = Val(response).user_id /\ store.alerts[a].is_read

(***************************************************************************)
(* Properties of the OAuth handlers                                        *)
(***************************************************************************)
\* the callback just answered obtained a token for the code of its request
Connected ==
  /\ ~IsNone(response)
  /\ Val(response).handler = "gmail_callback"
  /\ Val(response).message = "Successfully connected to Gmail"

\* C25: gmail_callback exchanges the code for a token only if the state
\* argument of the request equals a state that authorize_gmail stored in
\* the session before: a callback without a state argument in a session
\* holding no state is rejected, and the stored state is consumed
C25_TokenOnlyForStoredState ==
  Connected =>
    /\ ~IsNone(Val(response).detail.session_state)
    /\ Val(response).detail.state = Val(response).detail.session_state
    /\ IsNone(oauth_state[Val(response).user_id])

(***************************************************************************)
(* Properties of the credentials of an import                              *)
(***************************************************************************)
\* the import just answered fetched the mailbox
Imported ==
  /\ ~IsNone(response)
  /\ Val(response).handler = "import_emails"
  /\ Val(response).message = "Successfully imported"

\* C26: import_emails of user U fetches mail only with credentials that U
\* obtained by an authorization of U: without a token of U the import is
\* rejected, whoever authorized or imported before through the shared gmail
\* object of the process
C26_ImportWithOwnCredentials ==
  Imported =>
    /\ ~IsNone(Val(response).detail.credentials)
    /\ Val(Val(response).detail.credentials).granted_to = Val(response).user_id

(***************************************************************************)
(* Properties of repeated imports                                          *)
(***************************************************************************)
\* the rows import_emails stored
ImportedRows == {i \in DOMAIN store.emails : ~IsNone(store.emails[i].listed)}

\* C27: importing is idempotent per user: the store holds at most one
\* imported Email per user, sender, subject and received_date, and a message
\* that is listed again, in a later import or twice in one listing, adds no
\* record, so no user has two imported rows for one message
C27_ImportIsIdempotent ==
  \A i, j \in ImportedRows :
     (/\ i < j
      /\ store.emails[i].user_id = store.emails[j].user_id
      /\ store.emails[i].sender = store.emails[j].sender
      /\ store.emails[i].subject = store.emails[j].subject) =>
        /\ store.emails[i].received_date /= store.emails[j].received_date
        /\ store.emails[i].listed /= store.emails[j].listed

(***************************************************************************)
(* Properties of the stored emails and their alerts                        *)
(***************************************************************************)
\* C28: no EmailAlert is created for an email stored with is_spam set,
\* whether it was stored by email_analysis or by import_emails
C28_NoAlertForSpam ==
  \A a \in DOMAIN store.alerts :
     store.alerts[a].trigger \in DOMAIN store.emails =>
        ~store.emails[store.alerts[a].trigger].is_spam

\* whether the sender of the row contains an entry of the blacklist of the
\* user the row belongs to
OwnerBlacklists(row) ==
  /\ ~IsNone(store.preferences[row.user_id])
  /\ BlacklistedTable[<<row.sender, Val(store.preferences[row.user_id])>>]

\* C29: an email whose sender matches an entry of the owning user's
\* blacklist is stored with is_spam set, and is_important is decided with
\* the owner's priority_threshold, whether the email came in through the
\* form of email_analysis or through import_emails
C29_OwnerPolicyOnBothPaths ==
  \A i \in DOMAIN store.emails :
     LET row == store.emails[i]
     IN  /\ OwnerBlacklists(row) => row.is_spam
         /\ ~IsNone(store.preferences[row.user_id]) =>
               (row.is_important =>
                  FGe(row.priority_score,
                      threshold_of(store.preferences[row.user_id])))

(***************************************************************************)
(* Properties of the caller's training data                                *)
(***************************************************************************)
\* C30: the constructor and update_training_data never modify the caller's
\* data: every dict passed as trained_data or new_data, and each of its
\* record lists, has the contents it had when it was passed, after that
\* call and after every later update_training_data call
C30_CallersDataUntouched ==
  \A i \in DOMAIN held : held[i].dict = held[i].passed

====
